---------------------------- MODULE Spec2Model ----------------------------
(***************************************************************************)
(* Model of the LERC v1 codec of frmts/mrf/LERCV1/Lerc1Image.cpp:          *)
(* the run-length coder of the validity mask (BitMaskV1), the scalar       *)
(* codecs, the tile encoder/decoder, the tiling search and the image       *)
(* container (Lerc1Image::write / Lerc1Image::read).                       *)
(*                                                                         *)
(* Byte buffers are sequences of bytes (0..255), indexed from 1; a cursor  *)
(* `pos` is the 1-based index of the next byte.  Every multi-byte field is *)
(* laid out little-endian, as memcpy does on the targets of the code.      *)
(***************************************************************************)
EXTENDS Integers, Sequences, FiniteSets, TLC

VARIABLES
    pc,         \* position of the driver: which call has completed
    img,        \* the object the encoder works on (BitMaskV1 / Lerc1Image)
    errBound,   \* maxZError as the caller passes it to write
    buf,        \* the byte buffer handed from the encoder to the decoder
    nRemainingBytes,  \* the length the caller passes with the buffer
    readBound,  \* maxZError as the caller passes it to read
    wr,         \* what the encoder-side call returned
    rd,         \* what the decoder-side call returned and left behind
    partSelector,  \* the part selector the caller passes to write and to read
    wh          \* what getwh returned and stored through its references

vars == <<pc, img, errBound, buf, nRemainingBytes, readBound, wr, rd, partSelector, wh>>

----------------------------------------------------------------------------
(* Small helpers *)

Min(a, b) == IF a <= b THEN a ELSE b

Max(a, b) == IF a >= b THEN a ELSE b

\* Least element of a non-empty set of integers
SetMin(S) == CHOOSE x \in S : \A y \in S : x <= y

\* n copies of the byte b
Rep(b, n) == [i \in 1..n |-> b]

\* F applied to the value of v, computed once
Strict(v, F(_)) == CHOOSE y \in {F(x) : x \in {v}} : TRUE

\* The sequence s with every element computed
Tup(s) == s \o <<>>

\* Store the bytes bs (lb of them) at indices p .. p+lb-1 of buffer s (of
\* length ls), growing the buffer when needed; a position nobody has
\* written yet holds -1, which is no byte
PokeAt(s, ls, p, bs, lb) ==
    [i \in 1..Max(ls, p + lb - 1) |->
        IF i >= p /\ i < p + lb THEN bs[i - p + 1]
        ELSE IF i <= ls THEN s[i] ELSE -1]

PokeSeq(s, p, bs) == PokeAt(s, Len(s), p, bs, Len(bs))

\* Store byte b at index p of buffer s
Poke(s, p, b) == PokeSeq(s, p, <<b>>)

\* The value of a C `short` holding the 16 bits lo + 256 * hi
ToShort(lo, hi) ==
    LET u == lo + 256 * hi IN IF u >= 32768 THEN u - 65536 ELSE u

\* Byte(val & 0xff) and Byte(val >> 8) of an int val (arithmetic shift)
LoByte(val) == val % 256

HiByte(val) == (val \div 256) % 256

----------------------------------------------------------------------------
(* RLE constants, Lerc1Image.cpp lines 38-42 *)

MAX_RUN == 32767

MIN_RUN == 5

EOT == -(MAX_RUN + 1)

----------------------------------------------------------------------------
(* BitMaskV1::RLEdecompress                                                *)
(*                                                                         *)
(* src is the buffer, p0 the index of its first byte to decode, n the      *)
(* number of bytes the caller declares, dst0 the mask bytes before the     *)
(* call (their number is size()).  The result records the value returned,  *)
(* the mask bytes after the call and `hi`, the number of bytes of src the  *)
(* call has read (counted from p0).                                        *)
(***************************************************************************)

\* The count taken high byte first
ReadCountSwapped(src, p) == ToShort(src[p + 1], src[p])

\* READ_COUNT at cursor p with n bytes declared left: the count read
ReadCount(src, p) == ToShort(src[p], src[p + 1])

\* Any count taken for the end marker
AnyCount(count) == TRUE

\* return (count == EOT)
IsEndMarker(count) == count = EOT

RECURSIVE RLEdecompressLoop(_, _, _, _, _, _)
RLEdecompressLoop(src, p, n, sz, out, rest) ==
    \* out: bytes stored through dst so far; rest: mask bytes not yet reached
    IF sz > 0
    THEN IF n < 2
         THEN [ok |-> FALSE, bits |-> out \o rest, next |-> p]
         ELSE LET count == ReadCount(src, p)
                  n2    == n - 2
              IN  IF count < 0
                  THEN IF n2 = 0
                       THEN [ok |-> FALSE, bits |-> out \o rest, next |-> p + 2]
                       ELSE LET b   == src[p + 2]
                                sz2 == sz + count
                            IN  IF sz2 < 0
                                THEN [ok |-> FALSE, bits |-> out \o rest,
                                      next |-> p + 3]
                                ELSE RLEdecompressLoop(src, p + 3, n2 - 1, sz2,
                                         out \o Rep(b, -count),
                                         SubSeq(rest, 1 - count, Len(rest)))
                  ELSE IF sz < count \/ n2 < count
                       THEN [ok |-> FALSE, bits |-> out \o rest, next |-> p + 2]
                       ELSE RLEdecompressLoop(src, p + 2 + count, n2 - count,
                                sz - count,
                                out \o SubSeq(src, p + 2, p + 1 + count),
                                SubSeq(rest, 1 + count, Len(rest)))
    ELSE IF n < 2
         THEN [ok |-> FALSE, bits |-> out \o rest, next |-> p]
         ELSE [ok |-> IsEndMarker(ReadCount(src, p)), bits |-> out \o rest,
               next |-> p + 2]

RLEdecompress(src, p0, n, dst0) ==
    LET r == RLEdecompressLoop(src, p0, n, Len(dst0), <<>>, dst0)
    IN  [ok |-> r.ok, bits |-> r.bits, hi |-> r.next - p0]

----------------------------------------------------------------------------
(* run_length: how many times the byte at s[p] is repeated, a value        *)
(* between 1 and min(max_count, MAX_RUN)                                   *)

run_length(s, p, max_count) ==
    LET m    == Min(max_count, MAX_RUN)
        near == {i \in 1..Min(m - 1, MIN_RUN) : s[p] # s[p + i]}
        far  == {i \in 1..(m - 1) : s[p] # s[p + i]}
    IN  IF near # {} THEN SetMin(near)
        ELSE IF far # {} THEN SetMin(far)
        ELSE m

----------------------------------------------------------------------------
(* BitMaskV1::RLEcompress                                                  *)
(*                                                                         *)
(* The loop state is that of the code: src (index of the next input byte), *)
(* sz (left to process), pCnt (index of the current sequence count), dst   *)
(* (index of the next output byte), oddrun, and the output buffer.         *)
(* Consecutive passes through the `run < MIN_RUN` branch that do not       *)
(* FLUSH before the last of them are taken together (OddStretch).          *)
(***************************************************************************)

\* WRITE_COUNT(val): two bytes at pCnt
WriteCount(out, pCnt, val) == PokeSeq(out, pCnt, <<LoByte(val), HiByte(val)>>)

\* FLUSH: close a non-empty odd run
Flush(st) ==
    IF st.oddrun # 0
    THEN [st EXCEPT !.out = WriteCount(st.out, st.pCnt, st.oddrun),
                    !.pCnt = st.pCnt + 2 + st.oddrun,
                    !.dst = st.pCnt + 2 + st.oddrun + 2,
                    !.oddrun = 0]
    ELSE st

\* if (cond) FLUSH
Flush2(cond, st) == IF cond THEN Flush(st) ELSE st

\* Number of consecutive passes, starting at input index p with sz bytes
\* left, that take the `run < MIN_RUN` branch, at most cap of them
OddStretch(s, p, sz, cap) ==
    LET lim == Min(sz, cap)
        \* the passes at which run_length returns MIN_RUN or more: MIN_RUN
        \* bytes are left and the next MIN_RUN bytes are equal
        R == {k \in 0..(lim - 1) :
                 /\ sz - k >= MIN_RUN
                 /\ \A i \in 1..(MIN_RUN - 1) : s[p + k] = s[p + k + i]}
    IN  IF R = {} THEN lim ELSE SetMin(R)

\* k passes through the `run < MIN_RUN` branch: k bytes copied to dst,
\* FLUSH when oddrun reaches MAX_RUN
OddPass(s, st, k) ==
    Flush2(st.oddrun + k = MAX_RUN,
           [st EXCEPT !.out = PokeSeq(st.out, st.dst,
                                      SubSeq(s, st.src, st.src + k - 1)),
                      !.dst = st.dst + k,
                      !.src = st.src + k,
                      !.sz = st.sz - k,
                      !.oddrun = st.oddrun + k])

\* The `Found a run` branch, entered after FLUSH with state s1
RunPass(s, s1, run) ==
    [s1 EXCEPT !.out = Poke(WriteCount(s1.out, s1.pCnt, -run),
                            s1.pCnt + 2, s[s1.src]),
               !.pCnt = s1.pCnt + 3,
               !.src = s1.src + run,
               !.sz = s1.sz - run,
               !.dst = s1.pCnt + 3 + 2]

\* The end marker written high byte first
EndMarkerSwapped(s1) ==
    [s1 EXCEPT !.out = PokeSeq(s1.out, s1.pCnt, <<HiByte(EOT), LoByte(EOT)>>),
               !.pCnt = s1.pCnt + 2]

\* After the loop: FLUSH (state s1), then WRITE_COUNT(EOT)
EndMarker(s1) ==
    [s1 EXCEPT !.out = WriteCount(s1.out, s1.pCnt, EOT),
               !.pCnt = s1.pCnt + 2]

RECURSIVE RLEcompressLoop(_, _)
RLEcompressBody(s, st, run) ==
    IF run < MIN_RUN
    THEN RLEcompressLoop(s,
             OddPass(s, st, OddStretch(s, st.src, st.sz, MAX_RUN - st.oddrun)))
    ELSE RLEcompressLoop(s, RunPass(s, Flush(st), run))

RLEcompressLoop(s, st) ==
    IF st.sz > 0
    THEN RLEcompressBody(s, st, run_length(s, st.src, st.sz))
    ELSE EndMarker(Flush(st))

\* The bytes written and the size returned (pCnt - start)
RLEcompress(s) ==
    LET st == RLEcompressLoop(s,
                  [src |-> 1, sz |-> Len(s), pCnt |-> 1, dst |-> 3,
                   oddrun |-> 0, out |-> <<>>])
    IN  [out |-> st.out, n |-> st.pCnt - 1]

----------------------------------------------------------------------------
(* BitMaskV1::RLEsize: the encoded size, computed without writing *)

\* SIMFLUSH: the output size after closing an odd run
SimFlush(oddrun, osz) == IF oddrun # 0 THEN osz + oddrun + 2 ELSE osz

RECURSIVE RLEsizeLoop(_, _, _, _, _)
RLEsizeOdd(s, src, sz, oddrun, osz, k) ==
    IF oddrun + k = MAX_RUN
    THEN RLEsizeLoop(s, src + k, sz - k, 0, SimFlush(oddrun + k, osz))
    ELSE RLEsizeLoop(s, src + k, sz - k, oddrun + k, osz)

RLEsizeBody(s, src, sz, oddrun, osz, run) ==
    IF run < MIN_RUN
    THEN RLEsizeOdd(s, src, sz, oddrun, osz,
                    OddStretch(s, src, sz, MAX_RUN - oddrun))
    ELSE RLEsizeLoop(s, src + run, sz - run, 0, SimFlush(oddrun, osz) + 3)

RLEsizeLoop(s, src, sz, oddrun, osz) ==
    IF sz # 0
    THEN RLEsizeBody(s, src, sz, oddrun, osz, run_length(s, src, sz))
    ELSE SimFlush(oddrun, osz)

RLEsize(s) == RLEsizeLoop(s, 1, Len(s), 0, 2)

----------------------------------------------------------------------------
(* Numbers.                                                                *)
(*                                                                         *)
(* A finite sample value (a C float, or a double holding one) is the pair  *)
(* <<i, f>> that stands for i + f / FRAC, with i an integer and            *)
(* 0 <= f < FRAC = 2^24.  Every float x with x = 0 or 1/2 <= |x| < 2^30    *)
(* is such a pair, and so is every sum of such a float and an integer.     *)
(* A float the model cannot express as a pair is kept as its four bytes,   *)
(* <<"raw", b0, b1, b2, b3>> (non-finite values, and values read from a    *)
(* buffer that lie outside the range above).                               *)
(* The error bounds of the model are 0 and powers of two, for which the    *)
(* double arithmetic of the code (0.5 / maxZError, the products and sums   *)
(* with it) is exact; the sample values of the model are whole numbers.    *)
(***************************************************************************)

FRAC == 2 ^ 24

Pow2(k) == 2 ^ k

\* floor(log2(n)) for 1 <= n < 2^31
Log2(n) == CHOOSE j \in 0..30 : Pow2(j) <= n /\ (j = 30 \/ n < Pow2(j + 1))

Num(i) == <<i, 0>>

IsNum(x) == Len(x) = 2

NumLT(a, b) == a[1] < b[1] \/ (a[1] = b[1] /\ a[2] < b[2])

NumLE(a, b) == a[1] < b[1] \/ (a[1] = b[1] /\ a[2] <= b[2])

NumNeg(a) == IF a[2] = 0 THEN <<-a[1], 0>> ELSE <<-a[1] - 1, FRAC - a[2]>>

NumAbs(a) == IF a[1] < 0 THEN NumNeg(a) ELSE a

NumAddInt(a, k) == <<a[1] + k, a[2]>>

NumSub(a, b) ==
    IF a[2] >= b[2] THEN <<a[1] - b[1], a[2] - b[2]>>
    ELSE <<a[1] - b[1] - 1, a[2] - b[2] + FRAC>>

NumMin(a, b) == IF NumLT(b, a) THEN b ELSE a

\* floorf
NumFloor(a) == <<a[1], 0>>

\* Round the magnitude <<I, F>>, I >= 0, to 24 significant bits, ties to even
RoundMag(I, F) ==
    IF I = 0 THEN <<I, F>>
    ELSE IF I < FRAC
    THEN \* g is one ulp, in units of 1/FRAC
         Strict(Pow2(Log2(I) + 1), LAMBDA g :
         LET low  == F % g
             base == F - (F % g)
             odd  == IF g = FRAC THEN I % 2 = 1 ELSE (F \div g) % 2 = 1
             up   == 2 * low > g \/ (2 * low = g /\ odd)
         IN  IF ~up THEN <<I, base>>
             ELSE IF base + g = FRAC THEN <<I + 1, 0>>
             ELSE <<I, base + g>>)
    ELSE \* G is one ulp, a whole number
         Strict(Pow2(Log2(I) - 23), LAMBDA G :
         LET low  == I % G
             base == I - (I % G)
             odd  == ((I - (I % G)) \div G) % 2 = 1
             up   == \/ 2 * low > G
                     \/ 2 * low = G /\ (F > 0 \/ odd)
         IN  IF up THEN <<base + G, 0>> ELSE <<base, 0>>)

\* static_cast<float>(x) of a double x
RoundFlt(a) ==
    IF a[1] < 0
    THEN Strict(NumNeg(a), LAMBDA m : NumNeg(RoundMag(m[1], m[2])))
    ELSE RoundMag(a[1], a[2])

\* static_cast<float>(zMin + 0.999999 * maxZError), for a whole zMin and a
\* whole maxZError e with zMin + e # 0.  With T = zMin + e the sum is
\* T - e/10^6, which lies e * 2^24/10^6 = e * 262144/15625 units of 1/FRAC
\* below T; it is rounded to the nearest multiple of one ulp.
NudgeUpOf(e, T, j) ==
    IF j <= 23
    THEN Strict(Pow2(j + 1), LAMBDA g :
         Strict(IF g > 65536 THEN 0
                ELSE (2 * 262144 * e + 15625 * g) \div (2 * 15625 * g), LAMBDA k :
         IF k = 0 THEN <<T, 0>> ELSE <<T - 1, FRAC - k * g>>))
    ELSE Strict(Pow2(j - 23), LAMBDA G :
         Strict((IF T < 0 THEN -T ELSE T) % G, LAMBDA low :
         LET A   == IF T < 0 THEN -T ELSE T
             up  == IF T < 0 THEN 2 * low >= G /\ low > 0 ELSE 2 * low > G
             mag == IF up THEN A - low + G ELSE A - low
         IN  IF low = 0 THEN <<T, 0>>
             ELSE IF T < 0 THEN <<-mag, 0>> ELSE <<mag, 0>>))

NudgeUp(zMin, e) ==
    IF e = 0 THEN zMin
    ELSE \* T = zMin + e, and j the binade of |T - e/10^6|
         Strict(zMin[1] + e, LAMBDA T :
         Strict(IF T > 1 THEN Log2(T - 1) ELSE IF T = 1 THEN -1 ELSE Log2(-T), LAMBDA j :
         NudgeUpOf(e, T, j)))

----------------------------------------------------------------------------
(* The bytes of a float and of an int, as memcpy lays them out *)

\* The four bytes of the float <<i, f>> (IEEE-754 binary32, little-endian)
FltBytes(a) ==
    IF ~IsNum(a) THEN <<a[2], a[3], a[4], a[5]>>
    ELSE IF a = <<0, 0>> THEN <<0, 0, 0, 0>>
    ELSE Strict(NumAbs(a), LAMBDA m :
         Strict(IF m[1] >= 1 THEN Log2(m[1]) ELSE Log2(m[2]) - 24, LAMBDA j :
         Strict((IF j >= 23 THEN m[1] \div Pow2(j - 23)
                 ELSE IF j >= 0
                 THEN m[1] * Pow2(23 - j) + m[2] \div Pow2(j + 1)
                 ELSE m[2] * Pow2(-1 - j)) - 8388608, LAMBDA frac :
         LET neg == a[1] < 0
             ex  == j + 127
         IN  << frac % 256,
                (frac \div 256) % 256,
                (ex % 2) * 128 + frac \div 65536,
                (IF neg THEN 128 ELSE 0) + ex \div 2 >>)))

\* The float held by four bytes
BytesFltOf(b, ex, frac, mant, j) ==
    LET mag  == IF j >= 23 THEN <<mant * Pow2(j - 23), 0>>
                ELSE IF j >= 0
                THEN <<mant \div Pow2(23 - j), (mant % Pow2(23 - j)) * Pow2(j + 1)>>
                ELSE <<0, mant \div Pow2(-1 - j)>>
        fits == /\ j >= -24 /\ j <= 29
                /\ (j < -1 => mant % Pow2(-1 - j) = 0)
    IN  IF ex = 0 /\ frac = 0 /\ b[4] < 128 THEN <<0, 0>>
        ELSE IF fits THEN (IF b[4] >= 128 THEN NumNeg(mag) ELSE mag)
        ELSE <<"raw", b[1], b[2], b[3], b[4]>>

BytesFlt(b) ==
    Strict((b[4] % 128) * 2 + b[3] \div 128, LAMBDA ex :
    Strict((b[3] % 128) * 65536 + b[2] * 256 + b[1], LAMBDA frac :
    BytesFltOf(b, ex, frac, frac + 8388608, ex - 127)))

\* The four bytes of a 32-bit int (two's complement, little-endian)
IntBytes(v) ==
    LET lo == v % 65536
        hi == (v \div 65536) % 65536
    IN  <<lo % 256, lo \div 256, hi % 256, hi \div 256>>

\* The int held by four bytes
BytesInt(b) ==
    b[1] + 256 * b[2] + 65536 * b[3]
      + 16777216 * (IF b[4] >= 128 THEN b[4] - 256 ELSE b[4])

----------------------------------------------------------------------------
(* Scalar codecs *)

MAXQ == 16777216

\* Byte-width codes of a header byte, indexed by the width n in 1..4
bits67 == <<128, 64, 192, 0>>

\* The widths of one and of two bytes exchanged
stib67Swapped == <<4, 1, 2, 0>>

\* Byte width for the code in bits 6 and 7, indexed by code + 1
stib67 == <<4, 2, 1, 0>>

SHRT_MAX == 32767

SCHAR_MAX == 127

IsNegZero(z) == z = <<"raw", 0, 0, 0, 128>>

IsZero(z) == z = <<0, 0>> \/ IsNegZero(z)

numBytesUInt(k) == IF k <= 255 THEN 1 ELSE IF k <= 65535 THEN 2 ELSE 4

\* (0xffffaa50 >> v) & 3 for the even v = 2 * q, q in 0..15
TopOfNibble(q) == IF q >= 8 THEN 3 ELSE IF q >= 4 THEN 2 ELSE IF q >= 2 THEN 1 ELSE 0

nBits(v) ==
    LET r  == IF v \div 65536 # 0 THEN 16 ELSE 0
        v1 == v \div Pow2(r)
        t  == IF v1 \div 256 # 0 THEN 8 ELSE 0
        v2 == v1 \div Pow2(t)
        u  == IF v2 \div 16 # 0 THEN 4 ELSE 0
        v3 == v2 \div Pow2(u)
    IN  1 + r + t + u + TopOfNibble(v3)

\* One byte kept for the values up to 255
numBytesFltUnsigned(z) ==
    IF IsNegZero(z) THEN 1
    ELSE IF ~IsNum(z) THEN 4
    ELSE IF z[2] # 0 \/ z[1] > SHRT_MAX \/ z[1] < -SHRT_MAX - 1 THEN 4
    ELSE IF z[1] > 2 * SCHAR_MAX + 1 \/ z[1] < -SCHAR_MAX - 1 THEN 2
    ELSE 1

numBytesFlt(z) ==
    IF IsNegZero(z) THEN 1
    ELSE IF ~IsNum(z) THEN 4
    ELSE IF z[2] # 0 \/ z[1] > SHRT_MAX \/ z[1] < -SHRT_MAX - 1 THEN 4
    ELSE IF z[1] > SCHAR_MAX \/ z[1] < -SCHAR_MAX - 1 THEN 2
    ELSE 1

\* The n bytes written for z; n = numBytesFlt(z) at every call with n < 4
writeFlt(z, n) ==
    IF n = 4 THEN FltBytes(z)
    ELSE IF IsNegZero(z) THEN Rep(0, n)
    ELSE IF n = 1 THEN <<z[1] % 256>>
    ELSE <<LoByte(z[1] % 65536), HiByte(z[1] % 65536)>>

readFlt(src, p, n) ==
    IF n = 4 THEN BytesFlt(SubSeq(src, p, p + 3))
    ELSE IF n = 2 THEN Num(ToShort(src[p], src[p + 1]))
    ELSE Num(IF src[p] >= 128 THEN src[p] - 256 ELSE src[p])

----------------------------------------------------------------------------
(* Bit packing.  The writer shifts the codes, numBits bits each, into a    *)
(* 32-bit accumulator from its high end and stores the accumulator with    *)
(* memcpy whenever the next code does not fit; the reader reloads it the   *)
(* same way.  So the codes form one bit stream, most significant bit       *)
(* first, cut into 32-bit words, and the bytes of every word are laid out  *)
(* least significant first.  The operators below give the result of these  *)
(* loops by position in that stream.                                       *)

\* Bit i (from 1) of the stream of the codes, 0 after its end
PackBit(codes, numBits, i) ==
    IF i > Len(codes) * numBits THEN 0
    ELSE (codes[(i - 1) \div numBits + 1]
            \div Pow2(numBits - 1 - ((i - 1) % numBits))) % 2

\* Byte m (from 1) of the stream, its first bit the most significant
PackByte(codes, numBits, m) ==
    128 * PackBit(codes, numBits, 8 * m - 7) + 64 * PackBit(codes, numBits, 8 * m - 6)
      + 32 * PackBit(codes, numBits, 8 * m - 5) + 16 * PackBit(codes, numBits, 8 * m - 4)
      + 8 * PackBit(codes, numBits, 8 * m - 3) + 4 * PackBit(codes, numBits, 8 * m - 2)
      + 2 * PackBit(codes, numBits, 8 * m - 1) + PackBit(codes, numBits, 8 * m)

\* The bytes the packing loop of writeZTile and its tail write for codes
\* below 2^numBits: every full word but the last as 4 bytes, then the last
\* word shifted down by its free whole bytes, 1 to 4 bytes
StuffBytes(codes, numBits) ==
    LET B      == Len(codes) * numBits
        W      == (B + 31) \div 32              \* words
        bits   == 32 * W - B                    \* free bits of the last
        nbytes == 4 - bits \div 8
    IN  [k \in 1..(4 * (W - 1) + nbytes) |->
            LET c == (k - 1) \div 4
                n == IF c < W - 1 THEN 4 ELSE nbytes
            IN  PackByte(codes, numBits, 4 * c + n - ((k - 1) % 4))]

\* Bit i (from 1) of the stream the loop of blockread consumes: word c is
\* loaded from 4 bytes, or from the last numBytes - 4 * c bytes into the
\* high end of the accumulator
UnpackBit(src, p, numBytes, i) ==
    LET c  == (i - 1) \div 32
        j  == (i - 1) % 32
        n  == Min(4, numBytes - 4 * c)
        bm == j \div 8                           \* byte of the word, 0 the top
    IN  IF bm >= n THEN 0
        ELSE (src[p + 4 * c + n - 1 - bm] \div Pow2(7 - (j % 8))) % 2

RECURSIVE UnpackVal(_, _, _, _, _, _)
UnpackVal(src, p, numBytes, first, k, sofar) ==
    IF k = 0 THEN sofar
    ELSE UnpackVal(src, p, numBytes, first + 1, k - 1,
                   2 * sofar + UnpackBit(src, p, numBytes, first))

\* The values blockread stores in d
UnpackVals(src, p, numBytes, numBits, numElements) ==
    [e \in 1..numElements |->
        UnpackVal(src, p, numBytes, (e - 1) * numBits + 1, numBits, 0)]

----------------------------------------------------------------------------
(* Floats in general: comparison and classification work on the bytes, so  *)
(* they cover the values kept as bytes too                                 *)

NaN == <<"raw", 0, 0, 192, 127>>

FLT_MAX == <<"raw", 255, 255, 127, 127>>

NegFLT_MAX == <<"raw", 255, 255, 127, 255>>

\* A value the model does not compute: the result of arithmetic on a float
\* that is kept as bytes, or on a quantum that is not a whole number
Unknown == <<"unknown">>

FltExp(b) == (b[4] % 128) * 2 + b[3] \div 128

FltFrac(b) == (b[3] % 128) * 65536 + b[2] * 256 + b[1]

\* std::isfinite
IsFinite(z) == IsNum(z) \/ (Len(z) = 5 /\ FltExp(<<z[2], z[3], z[4], z[5]>>) # 255)

IsNaNFlt(z) ==
    /\ Len(z) = 5
    /\ FltExp(<<z[2], z[3], z[4], z[5]>>) = 255
    /\ FltFrac(<<z[2], z[3], z[4], z[5]>>) # 0

\* The position of a float that is not a NaN in the order of the floats
FltKey(z) ==
    Strict(FltBytes(z), LAMBDA b :
    Strict((b[4] % 128) * 16777216 + b[3] * 65536 + b[2] * 256 + b[1], LAMBDA mag :
    IF b[4] >= 128 THEN -mag ELSE mag))

\* a < b on floats
FltLT(a, b) ==
    IF IsNum(a) /\ IsNum(b) THEN NumLT(a, b)
    ELSE /\ ~IsNaNFlt(a) /\ ~IsNaNFlt(b)
         /\ FltKey(a) < FltKey(b)

\* std::min(a, b) on floats: b when b < a, else a
FltMin(a, b) ==
    IF a = Unknown \/ b = Unknown THEN Unknown
    ELSE IF FltLT(b, a) THEN b ELSE a

----------------------------------------------------------------------------
(* The image: width w, height h, the mask's byte array and the samples in  *)
(* row-major order.  Pixel (row, col) has the index row * w + col, from 0. *)

\* BitMaskV1::Size: the bytes that hold one bit per pixel
MaskSize(w, h) == 1 + (w * h - 1) \div 8

\* BitMaskV1::IsValid(k): bit k, the most significant bit of a byte first
MaskIsValid(bits, k) == (bits[k \div 8 + 1] \div Pow2(7 - (k % 8))) % 2 = 1

\* BitMaskV1::Set(k, v) for every k in 0 .. n - 1
MaskSetAll(bits, n, v) ==
    [j \in 1..Len(bits) |->
        LET full == IF 8 * j <= n THEN 8 ELSE IF 8 * (j - 1) >= n THEN 0
                    ELSE n - 8 * (j - 1)
            m    == 256 - Pow2(8 - full)        \* the bits of byte j below n
        IN  IF v THEN m + (bits[j] % Pow2(8 - full))
            ELSE bits[j] % Pow2(8 - full)]

\* Lerc1Image::resize: both arrays get the new size and are cleared
ImgResize(w, h) ==
    [w |-> w, h |-> h,
     mask |-> Rep(0, MaskSize(w, h)),
     z |-> Rep(Num(0), w * h)]

getSize(im) == im.w * im.h

IsValid(im, row, col) == MaskIsValid(im.mask, row * im.w + col)

\* The pixel indexes of the block [r0, r1) x [c0, c1) in scan order
TilePix(im, r0, r1, c0, c1) ==
    [i \in 1..((r1 - r0) * (c1 - c0)) |->
        (r0 + (i - 1) \div (c1 - c0)) * im.w + c0 + ((i - 1) % (c1 - c0))]

IsValidPix(im, k) == MaskIsValid(im.mask, k)

\* The valid ones among them
ValidPix(im, r0, r1, c0, c1) ==
    LET ok(k) == MaskIsValid(im.mask, k)
    IN  SelectSeq(TilePix(im, r0, r1, c0, c1), ok)

----------------------------------------------------------------------------
(* Encoding of the sample blocks *)

\* The least of a set of floats none of which is a NaN
FltMinOf(S) == CHOOSE x \in S : \A y \in S : ~FltLT(y, x)

\* The greatest of a set of floats none of which is a NaN
FltMaxOf(S) == CHOOSE x \in S : \A y \in S : ~FltLT(x, y)

\* The loop of computeZStats over the valid samples vals: a sample that is
\* not finite sets zMin to NaN, which no later sample is below; zMax starts
\* at -FLT_MAX and no NaN is above it
computeZStatsOf(vals) ==
    LET S == {vals[i] : i \in 1..Len(vals)}
    IN  [ok |-> TRUE,
         zMin |-> IF Len(vals) = 0 THEN Num(0)
                  ELSE IF \E x \in S : ~IsFinite(x) THEN NaN
                  ELSE FltMinOf(S \cup {FLT_MAX}),
         zMax |-> IF Len(vals) = 0 THEN Num(0)
                  ELSE FltMaxOf({x \in S : ~IsNaNFlt(x)} \cup {NegFLT_MAX}),
         numValidPixel |-> Len(vals),
         numFinite |-> Cardinality({i \in 1..Len(vals) : IsFinite(vals[i])})]

SamplesAtOf(im, V) == [i \in 1..Len(V) |-> im.z[V[i] + 1]]

SamplesAt(im, V) == Strict(V, LAMBDA P : SamplesAtOf(im, P))

computeZStats(im, r0, r1, c0, c1) ==
    IF r0 < 0 \/ c0 < 0 \/ r1 > im.h \/ c1 > im.w
    THEN [ok |-> FALSE, zMin |-> Num(0), zMax |-> Num(0),
          numValidPixel |-> 0, numFinite |-> 0]
    ELSE Strict(Tup(SamplesAt(im, ValidPix(im, r0, r1, c0, c1))),
                LAMBDA vals : computeZStatsOf(vals))

isallsameval(im, r0, r1, c0, c1) ==
    LET P == TilePix(im, r0, r1, c0, c1)
    IN  \A i \in 1..Len(P) :
            FltBytes(im.z[P[i] + 1]) = FltBytes(im.z[r0 * im.w + c0 + 1])

\* ((double)zMax - zMin) / (2 * maxZError) > MAXQ, for a whole maxZError > 0.
\* The quotient is rounded to 53 bits: doubles next to MAXQ = 2^24 are 2^-28
\* apart, so the rounded quotient exceeds MAXQ when the exact one exceeds
\* MAXQ + 2^-29, that is when the difference exceeds 2 * maxZError * MAXQ by
\* more than maxZError / 16 units of 1/FRAC
TooManyLevels(zMin, zMax, maxZError) ==
    Strict(NumSub(zMax, zMin), LAMBDA D :
    \/ D[1] \div (2 * maxZError) > MAXQ
    \/ /\ D[1] \div (2 * maxZError) = MAXQ
       /\ \/ D[1] % (2 * maxZError) > 0
          \/ 16 * D[2] > maxZError)

\* (unsigned int)(((double)z - zMin) / (2 * maxZError) + 0.5) for a whole
\* maxZError > 0; a value between -1 and 0 converts to 0.  The quotient is
\* rounded to 53 bits and so is the sum: with x = z - zMin a multiple of
\* 1/FRAC, x / (2 * maxZError) + 0.5 is a whole number or at least
\* 1 / (2 * FRAC * maxZError) away from one, which is more than the two
\* roundings move it while x < 2^27, so the result is the floor of the
\* exact value
Quantize(z, zMin, maxZError) ==
    LET P == NumAddInt(NumSub(z, zMin), maxZError)
    IN  IF P[1] < 0 THEN 0 ELSE P[1] \div (2 * maxZError)

\* 2^k modulo e
RECURSIVE Pow2Mod(_, _)
Pow2Mod(k, e) == IF k = 0 THEN 1 % e ELSE (2 * Pow2Mod(k - 1, e)) % e

\* double f = 0.5 / maxZError for a whole maxZError e > 0: 1 / (2 * e)
\* rounded to 53 bits.  With s = floor(log2(e)) the quotient 2^(53+s) / e
\* lies in [2^52, 2^53], so f is its nearest whole number times 2^-(54+s):
\* with r = 2^(53+s) mod e, f = (1 - r / 2^(53+s)) / (2 * e) when 2 * r < e,
\* and f >= 1 / (2 * e) otherwise (2 * r = e only for r = 0).  The result
\* is r in the first case and 0 in the second.
RecipDeficit(e) ==
    Strict(Pow2Mod(53 + Log2(e), e), LAMBDA r : IF 2 * r < e THEN r ELSE 0)

\* (unsigned int)(((double)z - zMin) * f + 0.5), f = 0.5 / maxZError, for a
\* whole maxZError > 0.  The result is that of Quantize unless the exact
\* value x / (2 * maxZError) + 0.5 is a whole number N >= 2 and f is below
\* 1 / (2 * maxZError): the product (N - 0.5) * (1 - r / 2^(53+s)) then
\* rounds to N - 0.5 or to the double below it, which is u = 2^(j-52)
\* lower for 2^j <= N - 0.5 < 2^(j+1); it rounds to the lower one when
\* (N - 0.5) * r / 2^(53+s) > u / 2, that is (2N - 1) * r > 2^(j+1+s), and
\* the sum with 0.5 is then N - u, a double, which converts to N - 1.
\* For N = 1 the sum with 0.5 rounds to 1.
QuantizeMul(z, zMin, maxZError) ==
    Strict(NumAddInt(NumSub(z, zMin), maxZError), LAMBDA P :
    Strict(IF P[1] < 0 THEN 0 ELSE P[1] \div (2 * maxZError), LAMBDA N :
    IF /\ N >= 2
       /\ P[2] = 0 /\ P[1] % (2 * maxZError) = 0
       /\ (2 * N - 1) * RecipDeficit(maxZError)
             > Pow2(Log2(2 * N - 1) + Log2(maxZError))
    THEN N - 1 ELSE N))

\* A block of one value sized as a constant block under every bound
numBytesZTileConstFirst(nValues, zMin, zMax, maxZError) ==
    IF nValues = 0 \/ (IsZero(zMin) /\ IsZero(zMax)) THEN 1
    ELSE IF IsFinite(zMin) /\ zMin = zMax THEN 1 + numBytesFlt(zMin)
    ELSE IF \/ maxZError = 0
            \/ ~IsFinite(zMin) \/ ~IsFinite(zMax)
            \/ TooManyLevels(zMin, zMax, maxZError)
    THEN 1 + nValues * 4
    ELSE LET maxElem == Quantize(zMax, zMin, maxZError)
             nb      == 1 + numBytesFlt(zMin)
         IN  IF maxElem = 0 THEN nb
             ELSE nb + 1 + numBytesUInt(nValues)
                    + (nValues * nBits(maxElem) + 7) \div 8

numBytesZTile(nValues, zMin, zMax, maxZError) ==
    IF nValues = 0 \/ (IsZero(zMin) /\ IsZero(zMax)) THEN 1
    ELSE IF \/ maxZError = 0
            \/ ~IsFinite(zMin) \/ ~IsFinite(zMax)
            \/ TooManyLevels(zMin, zMax, maxZError)
    THEN 1 + nValues * 4
    ELSE LET maxElem == Quantize(zMax, zMin, maxZError)
             nb      == 1 + numBytesFlt(zMin)
         IN  IF maxElem = 0 THEN nb
             ELSE nb + 1 + numBytesUInt(nValues)
                    + (nValues * nBits(maxElem) + 7) \div 8

\* The bytes of an unsigned count in n bytes
CountBytes(k, n) == SubSeq(IntBytes(k), 1, n)

writeZTileStuffed(im, V, numValidPixel, zMin, zMax, maxZError, maxElem, n) ==
    LET flag  == IF maxElem = 0 THEN 3 ELSE 1
        head  == <<flag + bits67[n]>> \o writeFlt(zMin, n)
        codes == [i \in 1..Len(V) |-> QuantizeMul(im.z[V[i] + 1], zMin, maxZError)]
        n2    == numBytesUInt(numValidPixel)
    IN  IF maxElem = 0 THEN [ok |-> TRUE, bytes |-> head]
        ELSE IF Len(V) # numValidPixel THEN [ok |-> FALSE, bytes |-> <<>>]
        ELSE [ok |-> TRUE,
              bytes |-> head \o <<nBits(maxElem) + bits67[n2]>>
                          \o CountBytes(numValidPixel, n2)
                          \o StuffBytes(codes, nBits(maxElem))]

\* The valid samples stored most significant byte first
FlatBytesSwapped(im, V) ==
    [k \in 1..(4 * Len(V)) |->
        FltBytes(im.z[V[(k - 1) \div 4 + 1] + 1])[4 - ((k - 1) % 4)]]

\* The valid samples as memcpy stores them, 4 bytes each
FlatBytes(im, V) ==
    [k \in 1..(4 * Len(V)) |->
        FltBytes(im.z[V[(k - 1) \div 4 + 1] + 1])[((k - 1) % 4) + 1]]

writeZTile(im, r0, r1, c0, c1, numValidPixel, zMin, zMax, maxZError) ==
    IF numValidPixel = 0 \/ (IsZero(zMin) /\ IsZero(zMax))
    THEN [ok |-> TRUE, bytes |-> <<2>>]
    ELSE IF \/ maxZError = 0
            \/ ~IsFinite(zMin) \/ ~IsFinite(zMax)
            \/ TooManyLevels(zMin, zMax, maxZError)
    THEN IF Len(ValidPix(im, r0, r1, c0, c1)) # numValidPixel
         THEN [ok |-> FALSE, bytes |-> <<>>]
         ELSE [ok |-> TRUE,
               bytes |-> <<0>> \o FlatBytes(im, ValidPix(im, r0, r1, c0, c1))]
    ELSE writeZTileStuffed(im, ValidPix(im, r0, r1, c0, c1), numValidPixel,
                           zMin, zMax, maxZError,
                           QuantizeMul(zMax, zMin, maxZError), numBytesFlt(zMin))

\* zm <= zMax on floats
FltLE(a, b) ==
    IF IsNum(a) /\ IsNum(b) THEN NumLE(a, b)
    ELSE /\ ~IsNaNFlt(a) /\ ~IsNaNFlt(b)
         /\ FltKey(a) <= FltKey(b)

\* The second candidate of writeTiles: floorf(zm) when it is above zMin and
\* takes fewer bytes than zm
RefineFloor(nv, zMin, zMax, maxZError, zm, nBN) ==
    IF ~FltLT(zMin, NumFloor(zm)) THEN [zMin |-> zm, n |-> nBN]
    ELSE Strict(numBytesZTile(nv, NumFloor(zm), zMax, maxZError), LAMBDA n :
         IF n < nBN THEN [zMin |-> NumFloor(zm), n |-> n]
         ELSE [zMin |-> zm, n |-> nBN])

RefineTry(zMin, n0, cand) ==
    IF cand.n < n0 THEN cand ELSE [zMin |-> zMin, n |-> n0]

\* The size of a block and the zMin it is written with (writeTiles, the
\* part before the write)
TilePlan(im, st, r0, r1, c0, c1, maxZError) ==
    IF st.numValidPixel = 0 THEN [zMin |-> st.zMin, n |-> 1, flat |-> FALSE]
    ELSE IF /\ st.numFinite = 0
            /\ st.numValidPixel = (r1 - r0) * (c1 - c0)
            /\ isallsameval(im, r0, r1, c0, c1)
    THEN [zMin |-> st.zMin, n |-> 5, flat |-> TRUE]
    ELSE Strict(numBytesZTile(st.numValidPixel, st.zMin, st.zMax, maxZError), LAMBDA n0 :
         IF st.numFinite # st.numValidPixel
         THEN [zMin |-> st.zMin, n |-> n0, flat |-> FALSE]
         ELSE Strict(NudgeUp(st.zMin, maxZError), LAMBDA zm :
              IF ~FltLE(zm, st.zMax)
              THEN [zMin |-> st.zMin, n |-> n0, flat |-> FALSE]
              ELSE Strict(RefineTry(st.zMin, n0,
                              RefineFloor(st.numValidPixel, st.zMin, st.zMax,
                                  maxZError, zm,
                                  numBytesZTile(st.numValidPixel, zm, st.zMax,
                                                maxZError))), LAMBDA r :
                   [zMin |-> r.zMin, n |-> r.n, flat |-> FALSE])))

\* The write of one block (writeTiles, the part under `if (bArr)`)
TileEmit(im, st, plan, r0, r1, c0, c1, maxZError) ==
    IF plan.flat
    THEN [ok |-> TRUE,
          bytes |-> <<3>> \o writeFlt(im.z[r0 * im.w + c0 + 1], 4)]
    ELSE writeZTile(im, r0, r1, c0, c1, st.numValidPixel, plan.zMin, st.zMax,
                    maxZError)

RECURSIVE writeTilesLoop(_, _, _, _, _, _, _, _)
writeTilesTile(im, maxZError, tileHeight, tileWidth, emit, v0, h0, acc, st, plan, w) ==
    LET h1   == Min(im.w, h0 + tileWidth)
        maxV == IF FltLT(acc.maxValInImg, st.zMax) THEN st.zMax
                ELSE acc.maxValInImg
        nv0  == IF h0 + tileWidth < im.w THEN v0 ELSE v0 + tileHeight
        nh0  == IF h0 + tileWidth < im.w THEN h0 + tileWidth ELSE 0
        rects == Append(acc.rects, <<v0, Min(im.h, v0 + tileHeight), h0, h1>>)
    IN  IF emit /\ (~w.ok \/ Len(w.bytes) # plan.n)
        THEN [ok |-> FALSE, numBytes |-> acc.numBytes + plan.n,
              maxValInImg |-> maxV, bytes |-> acc.bytes \o w.bytes,
              rects |-> rects]
        ELSE writeTilesLoop(im, maxZError, tileHeight, tileWidth, emit, nv0, nh0,
                 [ok |-> TRUE, numBytes |-> acc.numBytes + plan.n,
                  maxValInImg |-> maxV, bytes |-> acc.bytes \o w.bytes,
                  rects |-> rects])

writeTilesPlan(im, maxZError, tileHeight, tileWidth, emit, v0, h0, acc, st, plan) ==
    writeTilesTile(im, maxZError, tileHeight, tileWidth, emit, v0, h0, acc, st,
        plan,
        IF emit
        THEN TileEmit(im, st, plan, v0, Min(im.h, v0 + tileHeight),
                      h0, Min(im.w, h0 + tileWidth), maxZError)
        ELSE [ok |-> TRUE, bytes |-> <<>>])

writeTilesStats(im, maxZError, tileHeight, tileWidth, emit, v0, h0, acc, st) ==
    IF ~st.ok THEN [acc EXCEPT !.ok = FALSE]
    ELSE writeTilesPlan(im, maxZError, tileHeight, tileWidth, emit, v0, h0, acc,
             st,
             TilePlan(im, st, v0, Min(im.h, v0 + tileHeight),
                      h0, Min(im.w, h0 + tileWidth), maxZError))

writeTilesLoop(im, maxZError, tileHeight, tileWidth, emit, v0, h0, acc) ==
    IF v0 >= im.h THEN acc
    ELSE writeTilesStats(im, maxZError, tileHeight, tileWidth, emit, v0, h0, acc,
             computeZStats(im, v0, Min(im.h, v0 + tileHeight),
                           h0, Min(im.w, h0 + tileWidth)))

\* The sides of a block rounded up, so that the grid has numTilesV rows
\* and numTilesH columns
writeTilesRoundUp(im, maxZError, numTilesV, numTilesH, emit) ==
    IF numTilesV = 0 \/ numTilesH = 0
    THEN [ok |-> FALSE, numBytes |-> 0, maxValInImg |-> Num(0), bytes |-> <<>>,
          rects |-> <<>>]
    ELSE writeTilesLoop(im, maxZError, (im.h + numTilesV - 1) \div numTilesV,
             (im.w + numTilesH - 1) \div numTilesH, emit, 0, 0,
             [ok |-> TRUE, numBytes |-> 0, maxValInImg |-> NegFLT_MAX,
              bytes |-> <<>>, rects |-> <<>>])

\* emit is FALSE for the call with bArr == nullptr; rects lists the blocks
\* <<v0, v1, h0, h1>> in the order the loops have come to them
writeTiles(im, maxZError, numTilesV, numTilesH, emit) ==
    IF numTilesV = 0 \/ numTilesH = 0
    THEN [ok |-> FALSE, numBytes |-> 0, maxValInImg |-> Num(0), bytes |-> <<>>,
          rects |-> <<>>]
    ELSE writeTilesLoop(im, maxZError, im.h \div numTilesV, im.w \div numTilesH,
             emit, 0, 0,
             [ok |-> TRUE, numBytes |-> 0, maxValInImg |-> NegFLT_MAX,
              bytes |-> <<>>, rects |-> <<>>])

tileWidthArr == <<8, 11, 15, 20, 32, 64>>

RECURSIVE findTilingLoop(_, _, _, _)
\* A smaller candidate adopted without its size
findTilingTryGridOnly(im, maxZError, i, best, numTilesVert, numTilesHori, r) ==
    IF ~r.ok THEN [best EXCEPT !.ok = FALSE]
    ELSE IF r.numBytes > best.numBytesOpt THEN best
    ELSE IF r.numBytes < best.numBytesOpt
    THEN findTilingLoop(im, maxZError, i + 1,
             [best EXCEPT !.numTilesVert = numTilesVert,
                          !.numTilesHori = numTilesHori])
    ELSE findTilingLoop(im, maxZError, i + 1, best)

\* A candidate that ties the best taken for an increase
findTilingTryStopAtTie(im, maxZError, i, best, numTilesVert, numTilesHori, r) ==
    IF ~r.ok THEN [best EXCEPT !.ok = FALSE]
    ELSE IF r.numBytes >= best.numBytesOpt
    THEN [best EXCEPT !.tried = Append(@, <<i, r.numBytes, best.numBytesOpt>>)]
    ELSE findTilingLoop(im, maxZError, i + 1,
             [best EXCEPT !.numTilesVert = numTilesVert,
                          !.numTilesHori = numTilesHori,
                          !.numBytesOpt = r.numBytes,
                          !.tried = Append(@, <<i, r.numBytes, best.numBytesOpt>>)])

\* The candidate i of tileWidthArr after its dry run r; tried lists, for
\* every candidate whose dry run has been made, its index, its size and
\* the best size before it
findTilingTry(im, maxZError, i, best, numTilesVert, numTilesHori, r) ==
    IF ~r.ok THEN [best EXCEPT !.ok = FALSE]
    ELSE IF r.numBytes > best.numBytesOpt
    THEN [best EXCEPT !.tried = Append(@, <<i, r.numBytes, best.numBytesOpt>>)]
    ELSE IF r.numBytes < best.numBytesOpt
    THEN findTilingLoop(im, maxZError, i + 1,
             [best EXCEPT !.numTilesVert = numTilesVert,
                          !.numTilesHori = numTilesHori,
                          !.numBytesOpt = r.numBytes,
                          !.tried = Append(@, <<i, r.numBytes, best.numBytesOpt>>)])
    ELSE findTilingLoop(im, maxZError, i + 1,
             [best EXCEPT !.tried = Append(@, <<i, r.numBytes, best.numBytesOpt>>)])

findTilingLoop(im, maxZError, i, best) ==
    IF i > Len(tileWidthArr) THEN best
    ELSE IF (im.h \div tileWidthArr[i]) * (im.w \div tileWidthArr[i]) < 2
    THEN best
    ELSE findTilingTry(im, maxZError, i, best,
             im.h \div tileWidthArr[i], im.w \div tileWidthArr[i],
             writeTiles(im, maxZError, im.h \div tileWidthArr[i],
                        im.w \div tileWidthArr[i], FALSE))

findTilingFrom(im, maxZError, r) ==
    IF ~r.ok
    THEN [ok |-> FALSE, numTilesVert |-> 1, numTilesHori |-> 1,
          numBytesOpt |-> r.numBytes, maxValInImg |-> r.maxValInImg,
          tried |-> <<>>]
    ELSE findTilingLoop(im, maxZError, 1,
             [ok |-> TRUE, numTilesVert |-> 1, numTilesHori |-> 1,
              numBytesOpt |-> r.numBytes, maxValInImg |-> r.maxValInImg,
              tried |-> <<>>])

findTiling(im, maxZError) ==
    findTilingFrom(im, maxZError, writeTiles(im, maxZError, 1, 1, FALSE))

----------------------------------------------------------------------------
(* Decoding of the sample blocks.  Every reader returns, next to its       *)
(* result, the cursor p and the remaining size as the code leaves them,    *)
(* and hi: the highest index of the buffer it has read (0 when none).      *)

\* The unsigned value of n little-endian bytes at p; -1 when it is 2^31 or
\* more, which is above every size it is compared with
UIntAt(src, p, n) ==
    IF n = 4 /\ src[p + 3] >= 128 THEN -1
    ELSE IF n = 1 THEN src[p]
    ELSE IF n = 2 THEN src[p] + 256 * src[p + 1]
    ELSE src[p] + 256 * src[p + 1] + 65536 * src[p + 2] + 16777216 * src[p + 3]

\* The tiles of the model hold far fewer than 2^27 elements, so the product
\* numElements * numBits stays below 2^32.  The loop loads min(numBytes, 4)
\* bytes at every reload, numBytes bytes in all, so it ends with numBytes = 0
blockreadBody(src, p, size, numBits, numElements) ==
    LET numBytes == (numElements * numBits + 7) \div 8
    IN  IF numBits = 0
        THEN [ok |-> TRUE, d |-> Rep(0, numElements), p |-> p, size |-> size,
              hi |-> p - 1]
        ELSE IF size < numBytes
        THEN [ok |-> FALSE, d |-> <<>>, p |-> p, size |-> size, hi |-> p - 1]
        ELSE [ok |-> TRUE,
              d |-> UnpackVals(src, p, numBytes, numBits, numElements),
              p |-> p + numBytes, size |-> size - numBytes,
              hi |-> p + numBytes - 1]

\* dsize is d.size() at the call
blockread(src, p, size, dsize) ==
    IF size = 0
    THEN [ok |-> FALSE, d |-> <<>>, p |-> p, size |-> size, hi |-> 0]
    ELSE LET n       == stib67[src[p] \div 64 + 1]
             numBits == src[p] % 64
         IN  IF numBits >= 32 \/ n = 0 \/ size < 1 + n
             THEN [ok |-> FALSE, d |-> <<>>, p |-> p, size |-> size, hi |-> p]
             ELSE IF UIntAt(src, p + 1, n) = -1 \/ UIntAt(src, p + 1, n) > dsize
             THEN [ok |-> FALSE, d |-> <<>>, p |-> p + 1 + n,
                   size |-> size - 1 - n, hi |-> p + n]
             ELSE blockreadBody(src, p + 1 + n, size - 1 - n, numBits,
                                UIntAt(src, p + 1, n))

\* The largest code whose product with the quantum the model computes
MaxCode == 2 ^ 30 - 1

\* static_cast<float>(minval + q * code), q = 2 * maxZErrorInFile
Dequantize(minval, maxZErrorInFile, code) ==
    IF ~IsNum(minval) \/ maxZErrorInFile < 0 THEN Unknown
    ELSE IF maxZErrorInFile = 0 THEN RoundFlt(minval)
    ELSE IF code > MaxCode \div (2 * maxZErrorInFile) THEN Unknown
    ELSE RoundFlt(NumAddInt(minval, 2 * maxZErrorInFile * code))

\* z with the pixels P[1..m] replaced by the values val[1..m]
SetPix(z, P, m, val) ==
    [k \in 1..Len(z) |->
        IF \E i \in 1..m : P[i] + 1 = k
        THEN val[CHOOSE i \in 1..m : P[i] + 1 = k]
        ELSE z[k]]

\* The values as dequantised, without the bound of maxZInImg
readZTileStuffedNoClamp(im, V, b, maxZErrorInFile, maxZInImg, minval) ==
    LET numValid == Len(b.d)
        m        == Min(Len(V), numValid)
        val      == [i \in 1..m |->
                        Dequantize(minval, maxZErrorInFile, b.d[i])]
    IN  IF ~b.ok
        THEN [ok |-> FALSE, z |-> im.z, p |-> b.p, size |-> b.size, hi |-> b.hi]
        ELSE [ok |-> Len(V) = numValid, z |-> SetPix(im.z, V, m, val),
              p |-> b.p, size |-> b.size, hi |-> b.hi]

\* The elements left over after the last valid pixel are let pass
readZTileStuffedLeftOver(im, V, b, maxZErrorInFile, maxZInImg, minval) ==
    LET numValid == Len(b.d)
        m        == Min(Len(V), numValid)
        val      == [i \in 1..m |->
                        FltMin(maxZInImg,
                               Dequantize(minval, maxZErrorInFile, b.d[i]))]
    IN  IF ~b.ok
        THEN [ok |-> FALSE, z |-> im.z, p |-> b.p, size |-> b.size, hi |-> b.hi]
        ELSE [ok |-> Len(V) <= numValid, z |-> SetPix(im.z, V, m, val),
              p |-> b.p, size |-> b.size, hi |-> b.hi]

readZTileStuffed(im, V, b, maxZErrorInFile, maxZInImg, minval) ==
    LET numValid == Len(b.d)
        m        == Min(Len(V), numValid)
        val      == [i \in 1..m |->
                        FltMin(maxZInImg,
                               Dequantize(minval, maxZErrorInFile, b.d[i]))]
    IN  IF ~b.ok
        THEN [ok |-> FALSE, z |-> im.z, p |-> b.p, size |-> b.size, hi |-> b.hi]
        ELSE [ok |-> Len(V) = numValid, z |-> SetPix(im.z, V, m, val),
              p |-> b.p, size |-> b.size, hi |-> b.hi]

readZTileStored(im, V, src, p, size) ==
    LET m   == Min(Len(V), size \div 4)
        val == [i \in 1..m |-> BytesFlt(SubSeq(src, p + 4 * (i - 1), p + 4 * i - 1))]
    IN  [ok |-> m = Len(V), z |-> SetPix(im.z, V, m, val),
         p |-> p + 4 * m, size |-> size - 4 * m, hi |-> p + 4 * m - 1]

readZTileMin(im, src, p, size, r0, r1, c0, c1, maxZErrorInFile, maxZInImg, comprFlag, n, minval) ==
    LET P == TilePix(im, r0, r1, c0, c1)
    IN  IF comprFlag = 3
        THEN [ok |-> TRUE, z |-> SetPix(im.z, P, Len(P), [i \in 1..Len(P) |-> minval]),
              p |-> p + n, size |-> size - n, hi |-> p + n - 1]
        ELSE LET b == blockread(src, p + n, size - n, (r1 - r0) * (c1 - c0))
                 r == readZTileStuffed(im, ValidPix(im, r0, r1, c0, c1), b,
                                       maxZErrorInFile, maxZInImg, minval)
             IN  [r EXCEPT !.hi = Max(p + n - 1, b.hi)]

\* p and size are the cursor and the remaining size after the flag byte
readZTileBody(im, src, p, size, r0, r1, c0, c1, maxZErrorInFile, maxZInImg, comprFlag, n) ==
    LET P == TilePix(im, r0, r1, c0, c1)
    IN  IF n = 0 \/ comprFlag > 3
        THEN [ok |-> FALSE, z |-> im.z, p |-> p, size |-> size, hi |-> p - 1]
        ELSE IF comprFlag = 2
        THEN [ok |-> TRUE,
              z |-> SetPix(im.z, P, Len(P), [i \in 1..Len(P) |-> Num(0)]),
              p |-> p, size |-> size, hi |-> p - 1]
        ELSE IF comprFlag = 0
        THEN LET r == readZTileStored(im, ValidPix(im, r0, r1, c0, c1), src, p, size)
             IN  [r EXCEPT !.hi = Max(p - 1, r.hi)]
        ELSE IF size < n
        THEN [ok |-> FALSE, z |-> im.z, p |-> p, size |-> size, hi |-> p - 1]
        ELSE readZTileMin(im, src, p, size, r0, r1, c0, c1, maxZErrorInFile,
                          maxZInImg, comprFlag, n, readFlt(src, p, n))

readZTile(im, src, p, size, r0, r1, c0, c1, maxZErrorInFile, maxZInImg) ==
    IF size < 1
    THEN [ok |-> FALSE, z |-> im.z, p |-> p, size |-> size, hi |-> 0]
    ELSE readZTileBody(im, src, p + 1, size - 1, r0, r1, c0, c1,
                       maxZErrorInFile, maxZInImg,
                       src[p] % 64, stib67[src[p] \div 64 + 1])

\* The quotient of ints as C computes it, for a >= 0 and b # 0
CDiv(a, b) ==
    IF b > 0 THEN a \div b
    ELSE IF b = -2147483647 - 1 THEN 0
    ELSE -(a \div (-b))

\* seen holds the highest index read and the blocks <<r0, r1, c0, c1>>
\* readZTile has been called on, in the order of the calls
RECURSIVE readTilesLoop(_, _, _, _, _, _, _, _, _, _)
\* The columns left of a row of blocks when a whole block does not fit
readTilesNextWholeOnly(im, src, size, maxZErrorInFile, maxValInImg, tileHeight, tileWidth, r0, c0, seen, t) ==
    IF ~t.ok
    THEN [ok |-> FALSE, z |-> t.z, hi |-> Max(seen.hi, t.hi),
          rects |-> seen.rects]
    ELSE readTilesLoop([im EXCEPT !.z = t.z], src, t.p, t.size,
             maxZErrorInFile, maxValInImg, tileHeight, tileWidth,
             IF c0 + 2 * tileWidth <= im.w THEN <<r0, c0 + tileWidth>>
             ELSE <<r0 + tileHeight, 0>>,
             [hi |-> Max(seen.hi, t.hi), rects |-> seen.rects])

readTilesNext(im, src, size, maxZErrorInFile, maxValInImg, tileHeight, tileWidth, r0, c0, seen, t) ==
    IF ~t.ok
    THEN [ok |-> FALSE, z |-> t.z, hi |-> Max(seen.hi, t.hi),
          rects |-> seen.rects]
    ELSE readTilesLoop([im EXCEPT !.z = t.z], src, t.p, t.size,
             maxZErrorInFile, maxValInImg, tileHeight, tileWidth,
             IF c0 + tileWidth < im.w THEN <<r0, c0 + tileWidth>>
             ELSE <<r0 + tileHeight, 0>>,
             [hi |-> Max(seen.hi, t.hi), rects |-> seen.rects])

readTilesLoop(im, src, p, size, maxZErrorInFile, maxValInImg, tileHeight, tileWidth, at, seen) ==
    IF at[1] >= im.h
    THEN [ok |-> TRUE, z |-> im.z, hi |-> seen.hi, rects |-> seen.rects]
    ELSE readTilesNext(im, src, size, maxZErrorInFile, maxValInImg,
             tileHeight, tileWidth, at[1], at[2],
             [hi |-> seen.hi,
              rects |-> Append(seen.rects,
                               <<at[1], Min(im.h, at[1] + tileHeight),
                                 at[2], Min(im.w, at[2] + tileWidth)>>)],
             readZTile(im, src, p, size, at[1], Min(im.h, at[1] + tileHeight),
                       at[2], Min(im.w, at[2] + tileWidth),
                       maxZErrorInFile, maxValInImg))

readTiles(im, src, p, size, maxZErrorInFile, numTilesV, numTilesH, maxValInImg) ==
    IF numTilesV = 0 \/ numTilesH = 0
    THEN [ok |-> FALSE, z |-> im.z, hi |-> 0, rects |-> <<>>]
    ELSE IF CDiv(im.w, numTilesH) <= 0 \/ CDiv(im.h, numTilesV) <= 0
    THEN [ok |-> FALSE, z |-> im.z, hi |-> 0, rects |-> <<>>]
    ELSE readTilesLoop(im, src, p, size, maxZErrorInFile, maxValInImg,
             CDiv(im.h, numTilesV), CDiv(im.w, numTilesH), <<0, 0>>,
             [hi |-> 0, rects |-> <<>>])

----------------------------------------------------------------------------
(* The bytes of a double.  The error bounds of the model are whole numbers *)
(* below 2^20; any other double read from a buffer has no value in the     *)
(* model (-1 stands for it, and what is computed from it is Unknown), and  *)
(* is compared through its bytes.                                          *)

MaxDbl == 2 ^ 20 - 1

DblBytes(e) ==
    IF e = 0 THEN <<0, 0, 0, 0, 0, 0, 0, 0>>
    ELSE LET j      == Log2(e)
             biased == j + 1023
             frac   == (e - Pow2(j)) * Pow2(20 - j)
         IN  <<0, 0, 0, 0, frac % 256, (frac \div 256) % 256,
               (biased % 16) * 16 + frac \div 65536, biased \div 16>>

BytesDbl(b) ==
    LET biased == (b[8] % 128) * 16 + b[7] \div 16
        frac   == (b[7] % 16) * 65536 + b[6] * 256 + b[5]
        j      == biased - 1023
    IN  IF b = <<0, 0, 0, 0, 0, 0, 0, 0>> THEN 0
        ELSE IF /\ b[8] < 128 /\ j >= 0 /\ j < 20
                /\ b[1] = 0 /\ b[2] = 0 /\ b[3] = 0 /\ b[4] = 0
                /\ frac % Pow2(20 - j) = 0
        THEN Pow2(j) + frac \div Pow2(20 - j)
        ELSE -1

DblIsNaN(b) ==
    /\ (b[8] % 128) * 16 + b[7] \div 16 = 2047
    /\ \E i \in 1..7 : (IF i = 7 THEN b[7] % 16 ELSE b[i]) # 0

\* The bytes of a double from the most significant down, without the sign
DblMag(b) == <<b[8] % 128, b[7], b[6], b[5], b[4], b[3], b[2], b[1]>>

\* a > b for byte tuples compared from the left
RECURSIVE LexGT(_, _, _)
LexGT(a, b, i) ==
    IF i > Len(a) THEN FALSE
    ELSE IF a[i] # b[i] THEN a[i] > b[i]
    ELSE LexGT(a, b, i + 1)

\* x >= y in place of x > y
DblGE(x, y) ==
    /\ ~DblIsNaN(x)
    /\ x[8] < 128
    /\ (x = y \/ LexGT(DblMag(x), DblMag(y), 1))

\* x > y on doubles given by their bytes, y not negative and not a NaN
DblGT(x, y) ==
    /\ ~DblIsNaN(x)
    /\ x[8] < 128
    /\ LexGT(DblMag(x), DblMag(y), 1)

----------------------------------------------------------------------------
(* The container: Lerc1Image::write and Lerc1Image::read *)

CNT_Z == 8

CNT_Z_VER == 11

\* "CntZImage ", with the space
sCntZImage == <<67, 110, 116, 90, 73, 109, 97, 103, 101, 32>>

\* 1800 * 1000 * 1000 / sizeof(float)
TOO_LARGE == 450000000

MaxDim == 20000

\* The bytes before the parts: signature, four ints and a double
HeaderBytes == Len(sCntZImage) + 4 * 4 + 8

\* The bytes of a part before its payload: three ints and a float
PartHeaderBytes == 3 * 4 + 4

computeNumBytesNeededToWriteVoidImage == HeaderBytes + PartHeaderBytes + PartHeaderBytes + 1

\* The mask taken for uniform whatever it holds
CntInfoUniform(im) ==
    [numTilesVertCnt |-> 0, numTilesHoriCnt |-> 0,
     maxCntInImg |-> IF MaskIsValid(im.mask, 0) THEN 1 ELSE 0,
     numBytesCnt |-> 0]

\* The mask run-length coded whatever it holds
CntInfoAlwaysRLE(im) ==
    [numTilesVertCnt |-> 0, numTilesHoriCnt |-> 0,
     maxCntInImg |-> 1,
     numBytesCnt |-> RLEsize(im.mask)]

\* maxCntInImg left at the first bit when the bits differ
CntInfoKeepsFirst(im) ==
    LET m    == MaskIsValid(im.mask, 0)
        same == \A i \in 0..(getSize(im) - 1) : MaskIsValid(im.mask, i) = m
    IN  [numTilesVertCnt |-> 0, numTilesHoriCnt |-> 0,
         maxCntInImg |-> IF m THEN 1 ELSE 0,
         numBytesCnt |-> IF same THEN 0 ELSE RLEsize(im.mask)]

\* The mask part of the size estimate
CntInfo(im) ==
    LET m    == MaskIsValid(im.mask, 0)
        same == \A i \in 0..(getSize(im) - 1) : MaskIsValid(im.mask, i) = m
    IN  [numTilesVertCnt |-> 0, numTilesHoriCnt |-> 0,
         maxCntInImg |-> IF same THEN (IF m THEN 1 ELSE 0) ELSE 1,
         numBytesCnt |-> IF same THEN 0 ELSE RLEsize(im.mask)]

computeNumBytesFrom(im, maxZError, onlyZPart, cnt, ft) ==
    IF ~ft.ok THEN [sz |-> 0, cnt |-> cnt, ft |-> ft]
    ELSE [sz |-> HeaderBytes
                   + (IF onlyZPart THEN 0 ELSE PartHeaderBytes + cnt.numBytesCnt)
                   + PartHeaderBytes + ft.numBytesOpt,
          cnt |-> cnt, ft |-> ft]

computeNumBytesNeededToWrite(im, maxZError, onlyZPart) ==
    computeNumBytesFrom(im, maxZError, onlyZPart, CntInfo(im),
                        findTiling(im, maxZError))

PartHeader(numTilesVert, numTilesHori, numBytesOpt, maxValInImg) ==
    IntBytes(numTilesVert) \o IntBytes(numTilesHori) \o IntBytes(numBytesOpt)
      \o FltBytes(maxValInImg)

\* The mask part as write emits it
writeCntPart(im, cnt) ==
    Strict(IF cnt.numBytesCnt > 0 THEN RLEcompress(im.mask)
           ELSE [out |-> <<>>, n |-> 0], LAMBDA c :
    [ok |-> c.n = cnt.numBytesCnt,
     bytes |-> PartHeader(cnt.numTilesVertCnt, cnt.numTilesHoriCnt,
                          cnt.numBytesCnt, Num(cnt.maxCntInImg))
                 \o c.out])

\* The sample part as write emits it
writeZPart(im, maxZError, ft) ==
    Strict(writeTiles(im, maxZError, ft.numTilesVert, ft.numTilesHori, TRUE), LAMBDA r :
    [ok |-> r.ok /\ Len(r.bytes) = ft.numBytesOpt,
     bytes |-> PartHeader(ft.numTilesVert, ft.numTilesHori, ft.numBytesOpt,
                          ft.maxValInImg)
                 \o r.bytes])

writeParts(im, maxZError, zPart, head, info) ==
    IF info.sz = 0 THEN [ok |-> FALSE, bytes |-> head, info |-> info]
    ELSE Strict(IF zPart THEN [ok |-> TRUE, bytes |-> <<>>]
                ELSE writeCntPart(im, info.cnt), LAMBDA cp :
         IF ~cp.ok
         THEN [ok |-> FALSE, bytes |-> head \o cp.bytes, info |-> info]
         ELSE Strict(writeZPart(im, maxZError, info.ft), LAMBDA zp :
              [ok |-> zp.ok, bytes |-> head \o cp.bytes \o zp.bytes,
               info |-> info]))

\* Lerc1Image::write; bytes is what it has put at *ppByte
write(im, maxZError, zPart) ==
    IF getSize(im) = 0
    THEN [ok |-> FALSE, bytes |-> <<>>,
          info |-> [sz |-> 0, cnt |-> <<>>, ft |-> <<>>]]
    ELSE writeParts(im, maxZError, zPart,
             sCntZImage \o IntBytes(CNT_Z_VER) \o IntBytes(CNT_Z)
               \o IntBytes(im.h) \o IntBytes(im.w) \o DblBytes(maxZError),
             computeNumBytesNeededToWrite(im, maxZError, zPart))

\* What read returns and leaves behind: the value, the image, the cursor
\* and remaining size, the highest index read, whether resize has been
\* called, and for every part whose payload decoder has run the index of
\* the payload's first byte, the byte count of its header and the highest
\* index the decoder has read
ReadResult(ok, im, p, size, hi, resized, parts) ==
    [ok |-> ok, im |-> im, p |-> p, size |-> size, hi |-> hi,
     resized |-> resized, parts |-> parts]

PartRead(first, numBytes, hi) == [first |-> first, numBytes |-> numBytes, hi |-> hi]

\* The cursor advanced by the bytes the tiles took
readZPartTilesConsumed(im, src, q, sz, numBytes, resized, parts, r) ==
    ReadResult(r.ok, [im EXCEPT !.z = r.z],
               IF r.ok THEN r.hi + 1 ELSE q,
               IF r.ok THEN sz - (r.hi + 1 - q) ELSE sz,
               Max(q - 1, r.hi), resized,
               Append(parts, PartRead(q, numBytes, r.hi)))

\* The cursor advanced by the byte count of the sub-header
readZPartTiles(im, src, q, sz, numBytes, resized, parts, r) ==
    ReadResult(r.ok, [im EXCEPT !.z = r.z],
               IF r.ok THEN q + numBytes ELSE q,
               IF r.ok THEN sz - numBytes ELSE sz,
               Max(q - 1, r.hi), resized,
               Append(parts, PartRead(q, numBytes, r.hi)))

\* The sample part; p is at its header
readZPart(im, src, p, size, maxZErrorInFile, hi, resized, parts) ==
    IF size < PartHeaderBytes
    THEN ReadResult(FALSE, im, p, size, hi, resized, parts)
    ELSE LET numTilesVert == BytesInt(SubSeq(src, p, p + 3))
             numTilesHori == BytesInt(SubSeq(src, p + 4, p + 7))
             numBytes     == BytesInt(SubSeq(src, p + 8, p + 11))
             maxValInImg  == BytesFlt(SubSeq(src, p + 12, p + 15))
             q  == p + PartHeaderBytes
             sz == size - PartHeaderBytes
         IN  IF numBytes < 0 \/ sz < numBytes
             THEN ReadResult(FALSE, im, q, sz, q - 1, resized, parts)
             ELSE readZPartTiles(im, src, q, sz, numBytes, resized, parts,
                      readTiles(im, src, q, numBytes, maxZErrorInFile,
                                numTilesVert, numTilesHori, maxValInImg))

readCntPartRLE(im, src, q, sz, numBytes, maxZErrorInFile, resized, r) ==
    IF ~r.ok
    THEN ReadResult(FALSE, [im EXCEPT !.mask = r.bits], q, sz, q - 1 + r.hi,
                    resized, <<PartRead(q, numBytes, q - 1 + r.hi)>>)
    ELSE readZPart([im EXCEPT !.mask = r.bits], src, q + numBytes,
                   sz - numBytes, maxZErrorInFile, q - 1 + r.hi, resized,
                   <<PartRead(q, numBytes, q - 1 + r.hi)>>)

\* The mask part, followed by the sample part; p is at its header
readCntPart(im, src, p, size, maxZErrorInFile, hi, resized) ==
    IF size < PartHeaderBytes
    THEN ReadResult(FALSE, im, p, size, hi, resized, <<>>)
    ELSE LET numTilesVert == BytesInt(SubSeq(src, p, p + 3))
             numTilesHori == BytesInt(SubSeq(src, p + 4, p + 7))
             numBytes     == BytesInt(SubSeq(src, p + 8, p + 11))
             maxValInImg  == BytesFlt(SubSeq(src, p + 12, p + 15))
             q  == p + PartHeaderBytes
             sz == size - PartHeaderBytes
         IN  IF numBytes < 0 \/ sz < numBytes
             THEN ReadResult(FALSE, im, q, sz, q - 1, resized, <<>>)
             ELSE IF numTilesVert # 0 /\ numTilesHori # 0
             THEN ReadResult(FALSE, im, q, sz, q - 1, resized, <<>>)
             ELSE IF numBytes = 0
             THEN IF ~IsZero(maxValInImg) /\ maxValInImg # Num(1)
                  THEN ReadResult(FALSE, im, q, sz, q - 1, resized, <<>>)
                  ELSE readZPart(
                           [im EXCEPT !.mask = MaskSetAll(im.mask, getSize(im),
                                                   ~IsZero(maxValInImg))],
                           src, q, sz, maxZErrorInFile, q - 1, resized, <<>>)
             ELSE readCntPartRLE(im, src, q, sz, numBytes, maxZErrorInFile,
                      resized, RLEdecompress(src, q, numBytes, im.mask))

\* The version alone checked
BadVersionOnly(version, type) == version # CNT_Z_VER

\* version != CNT_Z_VER || type != CNT_Z
BadVersionOrType(version, type) == version # CNT_Z_VER \/ type # CNT_Z

\* The image resized to the header's dimensions under either selector
readCheckedResize(im, src, p, size, maxZError, ZPart, version, type, height, width, fileErr) ==
    IF BadVersionOrType(version, type)
    THEN ReadResult(FALSE, im, p, size, p - 1, FALSE, <<>>)
    ELSE IF \/ width <= 0 \/ width > MaxDim
            \/ height <= 0 \/ height > MaxDim
            \/ DblGT(fileErr, DblBytes(maxZError))
    THEN ReadResult(FALSE, im, p, size, p - 1, FALSE, <<>>)
    ELSE IF width * height > TOO_LARGE
    THEN ReadResult(FALSE, im, p, size, p - 1, FALSE, <<>>)
    ELSE IF ZPart
    THEN readZPart(IF width # im.w \/ height # im.h
                   THEN ImgResize(width, height) ELSE im,
                   src, p, size, BytesDbl(fileErr), p - 1, TRUE, <<>>)
    ELSE readCntPart(ImgResize(width, height), src, p, size,
                     BytesDbl(fileErr), p - 1, TRUE)

\* The checks of read on the fields of the header, and the parts after them
readChecked(im, src, p, size, maxZError, ZPart, version, type, height, width, fileErr) ==
    IF BadVersionOrType(version, type)
    THEN ReadResult(FALSE, im, p, size, p - 1, FALSE, <<>>)
    ELSE IF \/ width <= 0 \/ width > MaxDim
            \/ height <= 0 \/ height > MaxDim
            \/ DblGT(fileErr, DblBytes(maxZError))
    THEN ReadResult(FALSE, im, p, size, p - 1, FALSE, <<>>)
    ELSE IF width * height > TOO_LARGE
    THEN ReadResult(FALSE, im, p, size, p - 1, FALSE, <<>>)
    ELSE IF ZPart
    THEN IF width # im.w \/ height # im.h
         THEN ReadResult(FALSE, im, p, size, p - 1, FALSE, <<>>)
         ELSE readZPart(im, src, p, size, BytesDbl(fileErr), p - 1, FALSE, <<>>)
    ELSE readCntPart(ImgResize(width, height), src, p, size,
                     BytesDbl(fileErr), p - 1, TRUE)

\* Any length taken to hold the signature
AnySize(size) == TRUE

\* !(nRemainingBytes < len)
HasSignatureBytes(size) == size >= Len(sCntZImage)

\* Lerc1Image::read on the image im, with the buffer src, *ppByte at index
\* p and nRemainingBytes = size
read(im, src, p, size, maxZError, ZPart) ==
    IF ~HasSignatureBytes(size)
    THEN ReadResult(FALSE, im, p, size, 0, FALSE, <<>>)
    ELSE IF SubSeq(src, p, p + Len(sCntZImage) - 1) # sCntZImage
    THEN ReadResult(FALSE, im, p, size, p + Len(sCntZImage) - 1, FALSE, <<>>)
    ELSE IF size - Len(sCntZImage) < 4 * 4 + 8
    THEN ReadResult(FALSE, im, p + Len(sCntZImage), size - Len(sCntZImage),
                    p + Len(sCntZImage) - 1, FALSE, <<>>)
    ELSE readChecked(im, src, p + HeaderBytes, size - HeaderBytes, maxZError,
             ZPart,
             BytesInt(SubSeq(src, p + 10, p + 13)),
             BytesInt(SubSeq(src, p + 14, p + 17)),
             BytesInt(SubSeq(src, p + 18, p + 21)),
             BytesInt(SubSeq(src, p + 22, p + 25)),
             SubSeq(src, p + 26, p + 33))

\* What getwh returns, and width and height as it leaves them: the fields
\* of the header once it has copied them, the caller's values before that
ProbeResult(ok, width, height) == [ok |-> ok, width |-> width, height |-> height]

\* getwh without its check of the type
getwhAnyType(src, nBytes, width0, height0) ==
    IF nBytes < Len(sCntZImage) THEN ProbeResult(FALSE, width0, height0)
    ELSE IF SubSeq(src, 1, Len(sCntZImage)) # sCntZImage
    THEN ProbeResult(FALSE, width0, height0)
    ELSE IF nBytes - Len(sCntZImage) < 4 * 4 + 8
    THEN ProbeResult(FALSE, width0, height0)
    ELSE Strict(BytesInt(SubSeq(src, 19, 22)), LAMBDA height :
         Strict(BytesInt(SubSeq(src, 23, 26)), LAMBDA width :
         IF BadVersionOnly(BytesInt(SubSeq(src, 11, 14)),
                           BytesInt(SubSeq(src, 15, 18)))
         THEN ProbeResult(FALSE, width, height)
         ELSE IF \/ width <= 0 \/ width > MaxDim
                 \/ height <= 0 \/ height > MaxDim
         THEN ProbeResult(FALSE, width, height)
         ELSE ProbeResult(TRUE, width, height)))

\* Lerc1Image::getwh on the buffer src of nBytes bytes; width0 and height0
\* are the values the caller's variables hold at the call
getwh(src, nBytes, width0, height0) ==
    IF nBytes < Len(sCntZImage) THEN ProbeResult(FALSE, width0, height0)
    ELSE IF SubSeq(src, 1, Len(sCntZImage)) # sCntZImage
    THEN ProbeResult(FALSE, width0, height0)
    ELSE IF nBytes - Len(sCntZImage) < 4 * 4 + 8
    THEN ProbeResult(FALSE, width0, height0)
    ELSE Strict(BytesInt(SubSeq(src, 19, 22)), LAMBDA height :
         Strict(BytesInt(SubSeq(src, 23, 26)), LAMBDA width :
         IF BadVersionOrType(BytesInt(SubSeq(src, 11, 14)),
                             BytesInt(SubSeq(src, 15, 18)))
         THEN ProbeResult(FALSE, width, height)
         ELSE IF \/ width <= 0 \/ width > MaxDim
                 \/ height <= 0 \/ height > MaxDim
         THEN ProbeResult(FALSE, width, height)
         ELSE IF width * height > TOO_LARGE
         THEN ProbeResult(FALSE, width, height)
         ELSE ProbeResult(TRUE, width, height)))

\* getwh has not been called: the caller's width and height are 0
NoProbe == ProbeResult(FALSE, 0, 0)

----------------------------------------------------------------------------
(* The mask coder on its own: RLEsize, RLEcompress into a buffer of        *)
(* RLEsize() bytes, RLEdecompress of that buffer into a mask of the same   *)
(* size that holds other bytes before the call.                            *)
(***************************************************************************)

\* Longest of the short masks
MaxMaskLen == 6

\* Length of the long runs
LongRun == 40000

\* Bytes of the short masks: 128 and 255 are also the high bytes of counts
MaskBytes == {0, 128, 255}

SeqsUpTo(S, n) == UNION {[1..k -> S] : k \in 0..n}

Alternating(n) == [i \in 1..n |-> IF i % 2 = 1 THEN 85 ELSE 170]

\* Masks with runs and literal stretches at and beyond MAX_RUN
LongMasks ==
    { Rep(255, MAX_RUN),
      Rep(0, MAX_RUN + 1),
      Rep(255, LongRun) \o <<0, 128>>,
      <<1, 2>> \o Rep(0, LongRun) \o <<255, 255, 255, 255, 255>>,
      Alternating(MAX_RUN + 3) }

Masks == SeqsUpTo(MaskBytes, MaxMaskLen) \cup LongMasks

\* What the target mask holds before RLEdecompress: no byte of the source
OtherBytes(s) == [i \in 1..Len(s) |-> 255 - s[i]]

InitRLE ==
    /\ pc = "mask"
    /\ img \in Masks
    /\ errBound = 0 /\ readBound = 0
    /\ buf = <<>> /\ nRemainingBytes = 0
    /\ wr = [size |-> 0, n |-> 0]
    /\ rd = [ok |-> FALSE, bits |-> <<>>, hi |-> 0]
    /\ partSelector = FALSE
    /\ wh = NoProbe

\* RLEsize()
RLESize ==
    /\ pc = "mask"
    /\ wr' = [wr EXCEPT !.size = RLEsize(img)]
    /\ pc' = "sized"
    /\ UNCHANGED <<img, errBound, buf, nRemainingBytes, readBound, rd, partSelector, wh>>

RLECompressDone(c) ==
    /\ buf' = c.out
    /\ nRemainingBytes' = c.n
    /\ wr' = [wr EXCEPT !.n = c.n]

\* RLEcompress(aRLE)
RLECompress ==
    /\ pc = "sized"
    /\ RLECompressDone(RLEcompress(img))
    /\ pc' = "packed"
    /\ UNCHANGED <<img, errBound, readBound, rd, partSelector, wh>>

\* RLEdecompress(src, n) on a mask of the size of the original
RLEDecompress ==
    /\ pc = "packed"
    /\ rd' = RLEdecompress(buf, 1, nRemainingBytes, OtherBytes(img))
    /\ pc' = "unpacked"
    /\ UNCHANGED <<img, errBound, buf, nRemainingBytes, readBound, wr, partSelector, wh>>

NextRLE == RLESize \/ RLECompress \/ RLEDecompress

SpecRLE == InitRLE /\ [][NextRLE]_vars

\* A run of the byte b of exactly k bytes starts at index i of s
RunAt(s, i, k) ==
    /\ i + k - 1 <= Len(s)
    /\ \A j \in i..(i + k - 1) : s[j] = s[i]
    /\ (i = 1 \/ s[i - 1] # s[i])
    /\ (i + k > Len(s) \/ s[i + k] # s[i])

\* C4: RLEdecompress, given the bytes RLEcompress wrote and the size it
\* returned, succeeds and leaves in a mask of the same size exactly the
\* bytes of the original mask, whatever the mask is
C4_RLERoundTrip ==
    pc = "unpacked" => rd.ok /\ rd.bits = img

\* Witnesses of C4: a round trip has completed for the empty mask, for a
\* one-byte mask, for a mask of runs shorter than MIN_RUN next to one of
\* exactly MIN_RUN, for one longer than MIN_RUN, and for runs and literal
\* stretches longer than MAX_RUN
C4_Witness ==
    /\ pc = "unpacked"
    /\ Len(img) = LongRun + 7
    /\ rd.bits = img

C4_WitnessShort ==
    /\ pc = "unpacked"
    /\ Len(img) = MaxMaskLen
    /\ RunAt(img, 2, MIN_RUN)
    /\ rd.bits = img

\* C5: the bytes RLEcompress wrote end with the count -32768, low byte
\* first, and the size it returned is at most RLEsize()
C5_EndMarkerAndSize ==
    pc \in {"packed", "unpacked"} =>
        /\ wr.n >= 2
        /\ Len(buf) >= wr.n
        /\ buf[wr.n - 1] = 0 /\ buf[wr.n] = 128
        /\ wr.n <= wr.size

C5_Witness ==
    /\ pc = "packed"
    /\ Len(img) > MAX_RUN
    /\ wr.n = wr.size
    /\ wr.n > 2 * MaxMaskLen

----------------------------------------------------------------------------
(* RLEdecompress on arbitrary bytes: the buffer, the number of bytes the   *)
(* caller declares and the size of the mask are free.                      *)
(***************************************************************************)

\* Longest buffer handed to the decoder
MaxStreamLen == 5

\* Largest mask, in bytes, the decoder fills
MaxTargetLen == 2

\* Bytes of the buffers: the counts 0, 1, -1, -2, EOT and payloads
StreamBytes == {0, 1, 128, 254, 255}

\* What the mask holds before the call
Prior(sz) == Rep(170, sz)

InitRLEDec ==
    /\ pc = "stream"
    /\ buf \in SeqsUpTo(StreamBytes, MaxStreamLen)
    /\ nRemainingBytes \in 0..Len(buf)
    /\ img \in {Prior(sz) : sz \in 0..MaxTargetLen}
    /\ errBound = 0 /\ readBound = 0
    /\ wr = [size |-> 0, n |-> 0]
    /\ rd = [ok |-> FALSE, bits |-> <<>>, hi |-> 0]
    /\ partSelector = FALSE
    /\ wh = NoProbe

\* RLEdecompress(src, n) on bytes of any origin
RLEDecompressAny ==
    /\ pc = "stream"
    /\ rd' = RLEdecompress(buf, 1, nRemainingBytes, img)
    /\ pc' = "decoded"
    /\ UNCHANGED <<img, errBound, buf, nRemainingBytes, readBound, wr, partSelector, wh>>

NextRLEDec == RLEDecompressAny

SpecRLEDec == InitRLEDec /\ [][NextRLEDec]_vars

\* The 16-bit two's complement count stored low byte first at index p
CountAt(s, p) ==
    IF s[p + 1] >= 128 THEN s[p] + 256 * s[p + 1] - 65536
    ELSE s[p] + 256 * s[p + 1]

\* The input is malformed: reading records at index p with n declared bytes
\* left and sz mask bytes still to fill, one of the five faults occurs
RECURSIVE Malformed(_, _, _, _)
Malformed(s, p, n, sz) ==
    \/ n < 2                                   \* no room for a count
    \/ /\ n >= 2 /\ sz = 0
       /\ CountAt(s, p) # -32768               \* wrong end marker
    \/ /\ n >= 2 /\ sz > 0 /\ CountAt(s, p) >= 0
       /\ \/ CountAt(s, p) > n - 2             \* literal payload too long
          \/ CountAt(s, p) > sz                \* literal overfills the mask
          \/ Malformed(s, p + 2 + CountAt(s, p), n - 2 - CountAt(s, p),
                       sz - CountAt(s, p))
    \/ /\ n >= 2 /\ sz > 0 /\ CountAt(s, p) < 0
       /\ \/ n = 2                             \* repeat without payload
          \/ -CountAt(s, p) > sz               \* repeat overfills the mask
          \/ Malformed(s, p + 3, n - 3, sz + CountAt(s, p))

\* The mask bytes the records at index p stand for, sz bytes to fill
RECURSIVE Expand(_, _, _)
Expand(s, p, sz) ==
    IF sz = 0 THEN <<>>
    ELSE IF CountAt(s, p) < 0
    THEN Rep(s[p + 2], -CountAt(s, p)) \o Expand(s, p + 3, sz + CountAt(s, p))
    ELSE SubSeq(s, p + 2, p + 1 + CountAt(s, p))
         \o Expand(s, p + 2 + CountAt(s, p), sz - CountAt(s, p))

\* C6: RLEdecompress returns false for every malformed input (a count
\* expected with fewer than 2 bytes left, a literal longer than the bytes
\* left, a repeat without its payload byte, a count larger than the mask
\* bytes still to fill, a final count other than -32768); when it returns
\* true the mask is completely and rightly filled
C6_RejectsMalformed ==
    pc = "decoded" =>
        /\ Malformed(buf, 1, nRemainingBytes, Len(img)) => ~rd.ok
        /\ rd.ok => rd.bits = Expand(buf, 1, Len(img))

\* A repeat record that overfills the mask has been refused after a
\* literal record was stored
C6_Witness ==
    /\ pc = "decoded"
    /\ Len(img) = 2
    /\ nRemainingBytes = 5
    /\ CountAt(buf, 1) = 1
    /\ CountAt(buf, 4) = -2
    /\ ~rd.ok

\* Every fault occurs, and so does acceptance
C6_WitnessAccept ==
    /\ pc = "decoded"
    /\ Len(img) = 2
    /\ rd.ok
    /\ rd.bits = <<128, 128>>

----------------------------------------------------------------------------
(* The count -32768: in what RLEcompress writes for the masks above, and   *)
(* at the head of a buffer handed to RLEdecompress for a mask of the same  *)
(* size, among them masks of MAX_RUN and of MAX_RUN + 1 bytes.             *)
(***************************************************************************)

\* The masks short enough for one run of MIN_RUN bytes, and masks of
\* MAX_RUN bytes and more
EotMasks ==
    SeqsUpTo(MaskBytes, MIN_RUN)
      \cup {Rep(255, MAX_RUN), Rep(0, MAX_RUN + 1), Alternating(MAX_RUN + 3)}

InitEOT ==
    /\ pc = "mask"
    /\ img \in EotMasks
    /\ errBound = 0 /\ readBound = 0
    /\ buf = <<>> /\ nRemainingBytes = 0
    /\ wr = [size |-> 0, n |-> 0]
    /\ rd = [ok |-> FALSE, bits |-> <<>>, hi |-> 0]
    /\ partSelector = FALSE
    /\ wh = NoProbe

\* Another party replaces the buffer: a record with the count -32768 and
\* a payload byte, then nothing or the end marker
Forge ==
    /\ pc = "packed"
    /\ \E b \in MaskBytes, tail \in {<<>>, <<LoByte(EOT), HiByte(EOT)>>} :
          buf' = <<LoByte(EOT), HiByte(EOT), b>> \o tail
    /\ nRemainingBytes' = Len(buf')
    /\ pc' = "forged"
    /\ UNCHANGED <<img, errBound, readBound, wr, rd, partSelector, wh>>

\* RLEdecompress(src, n) of the replaced buffer, on a mask of the size of
\* the original
RLEDecompressForged ==
    /\ pc = "forged"
    /\ rd' = RLEdecompress(buf, 1, nRemainingBytes, OtherBytes(img))
    /\ pc' = "refilled"
    /\ UNCHANGED <<img, errBound, buf, nRemainingBytes, readBound, wr, partSelector, wh>>

NextEOT == RLESize \/ RLECompress \/ RLEDecompress \/ Forge \/ RLEDecompressForged

SpecEOT == InitEOT /\ [][NextEOT]_vars

\* The records of s from index p up to index n are repeat and literal
\* records with 1 <= |count| <= MAX_RUN, followed by the count EOT alone
RECURSIVE RecordCounts(_, _, _)
RecordCounts(s, p, n) ==
    /\ p + 1 <= n
    /\ IF p + 1 = n THEN CountAt(s, p) = EOT
       ELSE /\ CountAt(s, p) # 0
            /\ CountAt(s, p) >= -MAX_RUN /\ CountAt(s, p) <= MAX_RUN
            /\ RecordCounts(s, IF CountAt(s, p) < 0 THEN p + 3
                               ELSE p + 2 + CountAt(s, p), n)

\* Following the records of s from index p with sz mask bytes to fill,
\* the count EOT is met while mask bytes remain
RECURSIVE EotEarly(_, _, _, _)
EotEarly(s, p, n, sz) ==
    /\ sz > 0 /\ n >= 2
    /\ \/ CountAt(s, p) = EOT
       \/ /\ CountAt(s, p) < 0 /\ n >= 3 /\ -CountAt(s, p) <= sz
          /\ EotEarly(s, p + 3, n - 3, sz + CountAt(s, p))
       \/ /\ CountAt(s, p) >= 0
          /\ CountAt(s, p) <= sz /\ CountAt(s, p) <= n - 2
          /\ EotEarly(s, p + 2 + CountAt(s, p), n - 2 - CountAt(s, p),
                      sz - CountAt(s, p))

\* C24: the count -32768 is the end of the stream and nothing else:
\* every record RLEcompress writes has 1 <= |count| <= 32767, and
\* RLEdecompress returns false when it meets the count -32768 while mask
\* bytes remain to be filled, whatever the size of the mask
C24_EotOnlyTerminates ==
    /\ pc \in {"packed", "unpacked"} => RecordCounts(buf, 1, wr.n)
    /\ (pc \in {"unpacked", "refilled"}
          /\ EotEarly(buf, 1, nRemainingBytes, Len(img))) => ~rd.ok

\* The buffer -32768, 0, -32768 for a mask of 32768 bytes: the first
\* count has been taken for a repeat of 32768 bytes, the mask is filled
\* and true is returned
C24_EotAsRepeat ==
    /\ pc = "refilled"
    /\ Len(img) = MAX_RUN + 1
    /\ buf = <<0, 128, 0, 0, 128>>
    /\ rd.ok
    /\ rd.bits = Rep(0, MAX_RUN + 1)

----------------------------------------------------------------------------
(* The codec end to end: write of an image with the bound errBound, then   *)
(* read of the bytes written, with the bound readBound, into an image      *)
(* fresh from construction.                                                *)
(***************************************************************************)

\* Most pixels of an image
MaxPixels == 3

\* The error bounds are 0 and 2^0 .. 2^MaxErrLog
MaxErrLog == 1

ErrBounds == {0} \cup {Pow2(k) : k \in 0..MaxErrLog}

Shapes == {s \in (1..MaxPixels) \X (1..MaxPixels) : s[1] * s[2] <= MaxPixels}

\* The samples of an image come from one of these sets: small values that
\* quantize, a set with a negative minimum and neighbours, values where a
\* float has no odd neighbours, and a set with a NaN
Palettes ==
    { {Num(0), Num(3), Num(5)},
      {Num(-7), Num(300), Num(301)},
      {Num(16777215), Num(16777218), Num(16777220)},
      {Num(0), Num(5), NaN} }

\* The mask bytes with exactly the bits of V set, as Set(k, true) leaves
\* them after resize
MaskOf(n, V) ==
    [j \in 1..(1 + (n - 1) \div 8) |->
        LET bit[b \in 0..8] ==
                IF b = 8 THEN 0
                ELSE (IF 8 * (j - 1) + b \in V THEN Pow2(7 - b) ELSE 0)
                     + bit[b + 1]
        IN  bit[0]]

Image(w, h, V, z) == [w |-> w, h |-> h, mask |-> MaskOf(w * h, V), z |-> z]

\* (the masks of a shape are built once, then paired with the samples)
Images ==
    UNION { UNION { UNION { { [w |-> s[1], h |-> s[2], mask |-> m, z |-> z] :
                                z \in [1..(s[1] * s[2]) -> P] }
                            : m \in { MaskOf(s[1] * s[2], V) :
                                        V \in SUBSET (0..(s[1] * s[2] - 1)) } }
                    : P \in Palettes }
            : s \in Shapes }

\* What write has not yet returned, what read has not yet returned
NoWrite == [ok |-> FALSE, bytes |-> <<>>, sz |-> 0]

NoRead == ReadResult(FALSE, ImgResize(0, 0), 1, 0, 0, FALSE, <<>>)

InitCodec ==
    /\ pc = "image"
    /\ img \in Images
    /\ errBound \in ErrBounds
    /\ readBound = errBound
    /\ buf = <<>> /\ nRemainingBytes = 0
    /\ wr = NoWrite
    /\ rd = NoRead
    /\ partSelector = FALSE
    /\ wh = NoProbe

\* sz is what computeNumBytesNeededToWrite returned inside write
WriteDone(w) ==
    /\ buf' = w.bytes
    /\ nRemainingBytes' = Len(w.bytes)
    /\ wr' = [ok |-> w.ok, bytes |-> w.bytes, sz |-> w.info.sz]

\* write(ppByte, maxZError, partSelector)
Write ==
    /\ pc = "image"
    /\ WriteDone(write(img, errBound, partSelector))
    /\ pc' = "written"
    /\ UNCHANGED <<img, errBound, readBound, rd, partSelector, wh>>

\* The image read is called on: fresh from construction when it reads both
\* parts; of the dimensions and mask of the image written, its samples as
\* resize leaves them, when it reads the sample part alone
ReadTarget ==
    IF partSelector THEN [img EXCEPT !.z = Rep(Num(0), getSize(img))]
    ELSE ImgResize(0, 0)

\* read(ppByte, nRemainingBytes, maxZError, partSelector)
Read ==
    /\ pc \in {"written", "tampered", "probed"}
    /\ rd' = read(ReadTarget, buf, 1, nRemainingBytes, readBound, partSelector)
    /\ pc' = "read"
    /\ UNCHANGED <<img, errBound, buf, nRemainingBytes, readBound, wr, partSelector, wh>>

NextCodec == Write \/ Read

SpecCodec == InitCodec /\ [][NextCodec]_vars

\* The pixels (from 0) with the mask bit set
ValidSet(im) == {k \in 0..(getSize(im) - 1) : MaskIsValid(im.mask, k)}

AllFinite(im) == \A k \in 1..getSize(im) : IsNum(im.z[k])

\* |d - v| <= e, for a decoded d the model has a value for
Within(d, v, e) ==
    \/ d = Unknown
    \/ IsNum(d) /\ NumLE(NumAbs(NumSub(d, v)), Num(e))

\* C1: for every image of finite samples, every mask and every bound
\* e >= 0, write succeeds, read of the bytes written with the bound e
\* succeeds, and every valid pixel is decoded to a value within e of the
\* original sample
C1_ErrorBound ==
    (pc = "read" /\ AllFinite(img)) =>
        /\ wr.ok
        /\ rd.ok
        /\ \A k \in ValidSet(img) :
              Within(rd.im.z[k + 1], img.z[k + 1], errBound)

\* The decoded sample that leaves the bound: 16777218 comes back as
\* 16777220 under the bound 1
C1_Overshoot ==
    /\ pc = "read"
    /\ errBound = 1
    /\ img.w = 3 /\ img.h = 1
    /\ ValidSet(img) = {0, 1, 2}
    /\ img.z = <<Num(16777215), Num(16777218), Num(16777220)>>
    /\ wr.ok /\ rd.ok
    /\ rd.im.z[2] = Num(16777220)

RecordedMax ==
    Strict(HeaderBytes + 1 + PartHeaderBytes
             + BytesInt(SubSeq(wr.bytes, HeaderBytes + 9, HeaderBytes + 12)),
           LAMBDA q : BytesFlt(SubSeq(wr.bytes, q + 12, q + 15)))

\* C15: in a stream written from finite samples, the maximum recorded in
\* the sub-header of the sample part is the greatest original sample of a
\* valid pixel, and after read no valid pixel holds a value above it
C15_MaxRecorded ==
    (pc \in {"written", "read"} /\ AllFinite(img) /\ ValidSet(img) # {}) =>
        /\ wr.ok
        /\ \E k \in ValidSet(img) : RecordedMax = img.z[k + 1]
        /\ \A k \in ValidSet(img) : NumLE(img.z[k + 1], RecordedMax)
        /\ pc = "read" =>
              /\ rd.ok
              /\ \A k \in ValidSet(img) :
                    \/ rd.im.z[k + 1] = Unknown
                    \/ /\ IsNum(rd.im.z[k + 1])
                       /\ NumLE(rd.im.z[k + 1], RecordedMax)

\* 0, 3, 5 under the bound 1: the code of 5 dequantises to 6 and is read
\* back as 5, the recorded maximum
C15_Witness ==
    /\ pc = "read"
    /\ errBound = 1
    /\ ValidSet(img) = {0, 1, 2}
    /\ img.z = <<Num(0), Num(3), Num(5)>>
    /\ RecordedMax = Num(5)
    /\ rd.ok
    /\ rd.im.z[3] = Num(5)

\* A block of one value written with a raised zMin, read back below the
\* recorded maximum
C15_WitnessConstant ==
    /\ pc = "read"
    /\ errBound >= 1
    /\ ValidSet(img) # {}
    /\ AllFinite(img)
    /\ \E k \in ValidSet(img) :
          /\ IsNum(rd.im.z[k + 1])
          /\ NumLT(img.z[k + 1], rd.im.z[k + 1])
          /\ NumLT(rd.im.z[k + 1], RecordedMax)
    /\ wr.bytes[HeaderBytes + 2 * PartHeaderBytes + 1
                  + BytesInt(SubSeq(wr.bytes, HeaderBytes + 9, HeaderBytes + 12))] % 64 = 3

\* Every pixel of im has the mask bit of pixel 0
UniformMask(im) ==
    \A k \in 0..(getSize(im) - 1) :
        MaskIsValid(im.mask, k) = MaskIsValid(im.mask, 0)

\* C22: write emits the mask sub-header (0, 0, 0, m) and no payload
\* exactly when all the mask bits of the image are equal, m that bit as
\* 0.0 or 1.0; otherwise (0, 0, RLEsize(mask), 1.0) and then the run-length
\* stream of the mask; so the byte count is 0 exactly for a uniform mask
C22_MaskPart ==
    (pc \in {"written", "read"} /\ wr.ok /\ ~partSelector) =>
        Strict(BytesInt(SubSeq(wr.bytes, HeaderBytes + 9, HeaderBytes + 12)),
               LAMBDA n :
        /\ BytesInt(SubSeq(wr.bytes, HeaderBytes + 1, HeaderBytes + 4)) = 0
        /\ BytesInt(SubSeq(wr.bytes, HeaderBytes + 5, HeaderBytes + 8)) = 0
        /\ (n = 0) <=> UniformMask(img)
        /\ UniformMask(img) =>
              /\ SubSeq(wr.bytes, HeaderBytes + 13, HeaderBytes + 16)
                   = FltBytes(IF MaskIsValid(img.mask, 0) THEN Num(1) ELSE Num(0))
              /\ Len(wr.bytes) = HeaderBytes + 2 * PartHeaderBytes
                   + BytesInt(SubSeq(wr.bytes, HeaderBytes + PartHeaderBytes + 9,
                                     HeaderBytes + PartHeaderBytes + 12))
        /\ ~UniformMask(img) =>
              /\ n = RLEsize(img.mask)
              /\ SubSeq(wr.bytes, HeaderBytes + 13, HeaderBytes + 16)
                   = FltBytes(Num(1))
              /\ SubSeq(wr.bytes, HeaderBytes + PartHeaderBytes + 1,
                        HeaderBytes + PartHeaderBytes + n)
                   = RLEcompress(img.mask).out
              /\ Len(wr.bytes) = HeaderBytes + 2 * PartHeaderBytes + n
                   + BytesInt(SubSeq(wr.bytes, HeaderBytes + PartHeaderBytes + n + 9,
                                     HeaderBytes + PartHeaderBytes + n + 12)))

\* A mask whose first bit is 0 and whose bits differ: the maximum written
\* is 1.0 and the run-length stream follows
C22_Witness ==
    /\ pc = "written"
    /\ wr.ok
    /\ ValidSet(img) = {1}
    /\ getSize(img) = 3
    /\ SubSeq(wr.bytes, HeaderBytes + 1, HeaderBytes + PartHeaderBytes)
         = PartHeader(0, 0, 5, Num(1))
    /\ SubSeq(wr.bytes, HeaderBytes + PartHeaderBytes + 1,
              HeaderBytes + PartHeaderBytes + 5) = <<1, 0, 64, 0, 128>>

\* All three pixels valid: the byte of the mask is not 255, the
\* sub-header is (0, 0, 0, 1.0) and the sample part follows it
C22_WitnessUniform ==
    /\ pc = "written"
    /\ wr.ok
    /\ ValidSet(img) = {0, 1, 2}
    /\ img.mask = <<224>>
    /\ SubSeq(wr.bytes, HeaderBytes + 1, HeaderBytes + PartHeaderBytes)
         = PartHeader(0, 0, 0, Num(1))
    /\ BytesInt(SubSeq(wr.bytes, HeaderBytes + PartHeaderBytes + 1,
                       HeaderBytes + PartHeaderBytes + 4)) = 1

\* No pixel valid: (0, 0, 0, 0.0)
C22_WitnessVoid ==
    /\ pc = "written"
    /\ wr.ok
    /\ ValidSet(img) = {}
    /\ SubSeq(wr.bytes, HeaderBytes + 1, HeaderBytes + PartHeaderBytes)
         = PartHeader(0, 0, 0, Num(0))

\* C3: the mask read back equals the mask written, bit for bit, whether
\* all pixels are valid, none is, or some are
C3_MaskPreserved ==
    pc = "read" =>
        /\ rd.ok
        /\ rd.im.w = img.w /\ rd.im.h = img.h
        /\ \A k \in 0..(getSize(img) - 1) :
              MaskIsValid(rd.im.mask, k) = MaskIsValid(img.mask, k)

C3_Witness ==
    /\ pc = "read"
    /\ getSize(img) = MaxPixels
    /\ ValidSet(img) = {0, 2}
    /\ rd.ok
    /\ ValidSet(rd.im) = {0, 2}

\* No decoded sample of a stream that write produced is beyond the model
NoUnknown ==
    pc = "read" => \A k \in 1..Len(rd.im.z) : rd.im.z[k] # Unknown

----------------------------------------------------------------------------
(* The reader on bytes that are not what a writer produced: one byte of    *)
(* the buffer replaced, or a length shorter than the stream passed with    *)
(* it (the buffer still holds the whole stream, so a read beyond the       *)
(* length passed is a read of a byte that is there); and on streams whose  *)
(* recorded bound differs from the bound the reader passes.                *)
(***************************************************************************)

\* Values a replaced byte takes
CorruptBytes == {0, 1, 128, 255}

\* The images behind the streams: three pixels in a row or in a column,
\* under every mask
ReadImages ==
    { Image(s[1], s[2], V, <<Num(-7), Num(300), Num(301)>>) :
        s \in {<<3, 1>>, <<1, 3>>}, V \in SUBSET (0..2) }

InitRead ==
    /\ pc = "image"
    /\ img \in ReadImages
    /\ errBound \in ErrBounds
    /\ readBound \in ErrBounds
    /\ buf = <<>> /\ nRemainingBytes = 0
    /\ wr = NoWrite
    /\ rd = NoRead
    /\ partSelector = FALSE
    /\ wh = NoProbe

\* One byte of the buffer is replaced
Corrupt ==
    /\ pc = "written"
    /\ \E i \in 1..Len(buf) : \E v \in CorruptBytes \ {buf[i]} :
          buf' = [buf EXCEPT ![i] = v]
    /\ pc' = "tampered"
    /\ UNCHANGED <<img, errBound, nRemainingBytes, readBound, wr, rd, partSelector, wh>>

\* The caller passes a length shorter than the stream
Truncate ==
    /\ pc = "written"
    /\ nRemainingBytes' \in 0..(Len(buf) - 1)
    /\ pc' = "tampered"
    /\ UNCHANGED <<img, errBound, buf, readBound, wr, rd, partSelector, wh>>

NextRead == Write \/ Corrupt \/ Truncate \/ Read

SpecRead == InitRead /\ [][NextRead]_vars

\* C7: read looks at no byte at or beyond the length passed, and the
\* decoder of a part's payload at no byte beyond the byte count of the part
C7_ReadWithinBounds ==
    pc = "read" =>
        /\ rd.hi <= nRemainingBytes
        /\ \A i \in 1..Len(rd.parts) :
              rd.parts[i].hi <= rd.parts[i].first + rd.parts[i].numBytes - 1

\* A replaced byte has made the tile decoder want more bytes than the
\* sample part declares: it has read up to the last byte of the part and
\* no further, and read has returned false
C7_Witness ==
    /\ pc = "read"
    /\ nRemainingBytes = Len(buf)
    /\ Len(rd.parts) = 2
    /\ rd.parts[2].numBytes > 0
    /\ rd.parts[2].hi = rd.parts[2].first + rd.parts[2].numBytes - 1
    /\ ~rd.ok

\* A length that ends inside the stream has been passed, and read has
\* stopped at it
C7_WitnessShort ==
    /\ pc = "read"
    /\ nRemainingBytes < Len(buf)
    /\ nRemainingBytes > HeaderBytes
    /\ rd.hi = nRemainingBytes
    /\ ~rd.ok

\* The fields of the header as the buffer holds them
SignatureOf(s) == SubSeq(s, 1, 10)

VersionOf(s) == BytesInt(SubSeq(s, 11, 14))

TypeOf(s) == BytesInt(SubSeq(s, 15, 18))

HeightOf(s) == BytesInt(SubSeq(s, 19, 22))

WidthOf(s) == BytesInt(SubSeq(s, 23, 26))

BoundOf(s) == SubSeq(s, 27, 34)

BadHeader(s) ==
    \/ SignatureOf(s) # <<67, 110, 116, 90, 73, 109, 97, 103, 101, 32>>
    \/ VersionOf(s) # 11
    \/ TypeOf(s) # 8
    \/ WidthOf(s) < 1 \/ WidthOf(s) > 20000
    \/ HeightOf(s) < 1 \/ HeightOf(s) > 20000

\* C8: read returns false when a signature byte differs, when the version
\* is not 11, when the type is not 8, and when the width or the height is
\* outside 1..20000; it does so before the image is resized and before
\* any payload is decoded
C8_HeaderRejected ==
    (pc = "read" /\ BadHeader(buf)) =>
        /\ ~rd.ok
        /\ ~rd.resized
        /\ rd.im = ImgResize(0, 0)
        /\ rd.parts = <<>>
        /\ rd.hi <= 34

\* A stream whose only fault is its type, read with a bound that admits it
C8_Witness ==
    /\ pc = "read"
    /\ nRemainingBytes = Len(buf)
    /\ TypeOf(buf) # 8
    /\ VersionOf(buf) = 11
    /\ WidthOf(buf) * HeightOf(buf) = 3
    /\ readBound >= errBound
    /\ ~rd.ok

\* The stream is what write produced, passed whole
Untouched == buf = wr.bytes /\ nRemainingBytes = Len(buf)

\* C9: read rejects a stream on the ground of the bound exactly when the
\* bound recorded in it is greater than the bound the caller passes: every
\* stream with a greater recorded bound is rejected, before the image is
\* resized, and a stream that write produced is accepted when its bound is
\* less than or equal to the caller's
C9_BoundCheck ==
    pc = "read" =>
        /\ (nRemainingBytes >= 34 /\ DblGT(BoundOf(buf), DblBytes(readBound)))
              => (~rd.ok /\ ~rd.resized)
        /\ Untouched => (rd.ok <=> errBound <= readBound)

\* Acceptance at equal bounds, other than 0
C9_Witness ==
    /\ pc = "read"
    /\ Untouched
    /\ errBound = readBound
    /\ errBound > 0
    /\ rd.ok

\* Rejection of a stream a writer produced with a larger bound
C9_WitnessReject ==
    /\ pc = "read"
    /\ Untouched
    /\ errBound > readBound
    /\ ~rd.ok

\* C23: read of both parts returns false unless the rows and the columns
\* of tiles in the mask sub-header are both 0, and, when its byte count
\* is 0, unless its maximum is 0.0 or 1.0
C23_NoMaskTiling ==
    (pc = "read" /\ ~partSelector /\ rd.ok) =>
        /\ BytesInt(SubSeq(buf, HeaderBytes + 1, HeaderBytes + 4)) = 0
        /\ BytesInt(SubSeq(buf, HeaderBytes + 5, HeaderBytes + 8)) = 0
        /\ BytesInt(SubSeq(buf, HeaderBytes + 9, HeaderBytes + 12)) = 0 =>
              \/ IsZero(BytesFlt(SubSeq(buf, HeaderBytes + 13, HeaderBytes + 16)))
              \/ BytesFlt(SubSeq(buf, HeaderBytes + 13, HeaderBytes + 16)) = Num(1)

\* The stream of an image with a mixed mask, the rows of tiles of its
\* mask sub-header replaced by 1 and the columns 0: read has returned
\* true and the mask is that of the writer
C23_TiledMaskAccepted ==
    /\ pc = "read"
    /\ rd.ok
    /\ nRemainingBytes = Len(buf)
    /\ BytesInt(SubSeq(buf, HeaderBytes + 1, HeaderBytes + 4)) = 1
    /\ BytesInt(SubSeq(buf, HeaderBytes + 5, HeaderBytes + 8)) = 0
    /\ ValidSet(img) = {0, 2}
    /\ rd.im.mask = img.mask

----------------------------------------------------------------------------
(* The header probe on the buffers of the reader above, and read after it  *)
(* on the same buffer with the bound of the writer.                        *)
(***************************************************************************)

InitProbe ==
    /\ pc = "image"
    /\ img \in ReadImages
    /\ errBound \in ErrBounds
    /\ readBound = errBound
    /\ buf = <<>> /\ nRemainingBytes = 0
    /\ wr = NoWrite
    /\ rd = NoRead
    /\ partSelector = FALSE
    /\ wh = NoProbe

\* getwh(pByte, nBytes, width, height), width and height 0 at the call
Getwh ==
    /\ pc \in {"written", "tampered"}
    /\ wh' = getwh(buf, nRemainingBytes, 0, 0)
    /\ pc' = "probed"
    /\ UNCHANGED <<img, errBound, buf, nRemainingBytes, readBound, wr, rd, partSelector>>

NextProbe == Write \/ Corrupt \/ Truncate \/ Getwh \/ Read

SpecProbe == InitProbe /\ [][NextProbe]_vars

\* C13: getwh returns true exactly when 34 bytes are passed and the
\* signature, the version, the type and the dimensions pass their checks,
\* and then reports the width and height of the header; the bytes after
\* the header do not change its result; and where read returns true getwh
\* on the same buffer returns true with the dimensions read has resized to
C13_HeaderProbe ==
    /\ pc = "probed" =>
          /\ wh.ok <=> (nRemainingBytes >= 34 /\ ~BadHeader(buf))
          /\ wh.ok => (wh.width = WidthOf(buf) /\ wh.height = HeightOf(buf))
          /\ wh = getwh(SubSeq(buf, 1, Min(34, Len(buf))),
                        Min(34, nRemainingBytes), 0, 0)
    /\ (pc = "read" /\ rd.ok) =>
          getwh(buf, nRemainingBytes, 0, 0) = ProbeResult(TRUE, rd.im.w, rd.im.h)

\* The probe succeeds on a stream that read then rejects: a byte after the
\* header is not what a writer put there
C13_Witness ==
    /\ pc = "read"
    /\ nRemainingBytes = Len(buf)
    /\ wh = ProbeResult(TRUE, img.w, img.h)
    /\ SubSeq(buf, 1, 34) = SubSeq(wr.bytes, 1, 34)
    /\ buf # wr.bytes
    /\ ~rd.ok

\* The probe has failed on the type and has left the header's dimensions
\* in the caller's variables
C13_WitnessType ==
    /\ pc = "probed"
    /\ TypeOf(buf) # 8
    /\ wh = ProbeResult(FALSE, img.w, img.h)

\* The probe and read have both succeeded on a stream as written
C13_WitnessBoth ==
    /\ pc = "read"
    /\ Untouched
    /\ wh = ProbeResult(TRUE, img.w, img.h)
    /\ rd.ok

----------------------------------------------------------------------------
(* The tiling search on images large enough for the candidate widths.      *)
(***************************************************************************)

\* The kinds of region of an image: all 0, all 7, small values, a wide range
Kinds == 0..3

\* The sample of kind a at (row, col)
KindVal(a, row, col) ==
    IF a = 0 THEN Num(0)
    ELSE IF a = 1 THEN Num(7)
    ELSE IF a = 2 THEN Num((5 * col + 3 * row) % 4)
    ELSE Num(1000 * ((7 * col + 11 * row) % 13))

\* width, height and the column where the kind changes
Layouts == {<<16, 8, 8>>, <<8, 16, 4>>, <<16, 16, 8>>, <<24, 16, 12>>}

\* The masks: every pixel valid, the left region invalid, every third
\* pixel invalid
TilingValid(l, m) ==
    {k \in 0..(l[1] * l[2] - 1) :
        \/ m = 0
        \/ m = 1 /\ k % l[1] >= l[3]
        \/ m = 2 /\ k % 3 # 0}

TilingImage(l, a, b, m) ==
    Image(l[1], l[2], TilingValid(l, m),
          [k \in 1..(l[1] * l[2]) |->
              KindVal(IF (k - 1) % l[1] < l[3] THEN a ELSE b,
                      (k - 1) \div l[1], (k - 1) % l[1])])

\* Images of 24 x 16 whose grid of 8 x 8 tiles takes, under the bound 1,
\* as many bytes as the whole image as one tile: 32 valid pixels of 0 and 2
\* in the first tile, 8 valid pixels of 0 and 14 in the second (v = 0: its
\* first row; v = 1: two rows of its last four columns, which the grid of
\* the next candidate puts in a tile of their own)
TieImage(v) ==
    Image(24, 16,
          {k \in 0..383 :
              \/ k \div 24 < 4 /\ k % 24 < 8
              \/ v = 0 /\ k \div 24 = 0 /\ k % 24 \in 8..15
              \/ v = 1 /\ k \div 24 < 2 /\ k % 24 \in 12..15},
          [k \in 1..384 |->
              IF (k - 1) % 24 < 8 THEN Num(2 * ((k - 1) % 2))
              ELSE Num(14 * ((k - 1) % 2))])

InitTiling ==
    /\ pc = "image"
    /\ img \in {TilingImage(l, a, b, m) :
                  l \in Layouts, a \in Kinds, b \in Kinds, m \in 0..2}
               \cup {TieImage(0), TieImage(1)}
    /\ errBound \in ErrBounds
    /\ readBound = errBound
    /\ buf = <<>> /\ nRemainingBytes = 0
    /\ wr = [ok |-> FALSE, numTilesVert |-> 0, numTilesHori |-> 0,
             numBytesOpt |-> 0, maxValInImg |-> Num(0), tried |-> <<>>]
    /\ rd = [whole |-> 0, grid |-> 0]
    /\ partSelector = FALSE
    /\ wh = NoProbe

\* findTiling(maxZError, numTilesVert, numTilesHori, numBytesOpt, maxValInImg)
FindTiling ==
    /\ pc = "image"
    /\ wr' = findTiling(img, errBound)
    /\ pc' = "tiled"
    /\ UNCHANGED <<img, errBound, buf, nRemainingBytes, readBound, rd, partSelector, wh>>

\* writeTiles without a buffer, on the whole image as one tile and on the
\* grid that findTiling returned
DryRun ==
    /\ pc = "tiled"
    /\ wr.ok
    /\ rd' = [whole |-> writeTiles(img, errBound, 1, 1, FALSE).numBytes,
              grid  |-> writeTiles(img, errBound, wr.numTilesVert,
                                   wr.numTilesHori, FALSE).numBytes]
    /\ pc' = "measured"
    /\ UNCHANGED <<img, errBound, buf, nRemainingBytes, readBound, wr, partSelector, wh>>

NextTiling == FindTiling \/ DryRun

SpecTiling == InitTiling /\ [][NextTiling]_vars

\* C10: the size findTiling returns is at most the size of the dry run
\* with the whole image as one tile, and equals the size of the dry run
\* with the grid it returns
C10_TilingSize ==
    /\ pc = "tiled" => wr.ok
    /\ pc = "measured" =>
          /\ wr.numBytesOpt <= rd.whole
          /\ wr.numBytesOpt = rd.grid

\* A grid of the second candidate width has been returned, smaller than
\* the whole image as one tile
C10_Witness ==
    /\ pc = "measured"
    /\ img.w = 24
    /\ wr.numTilesVert = 1 /\ wr.numTilesHori = 2
    /\ wr.numBytesOpt < rd.whole
    /\ wr.numBytesOpt = rd.grid

\* The search has kept the whole image as one tile although a grid was tried
C10_WitnessWhole ==
    /\ pc = "measured"
    /\ wr.numTilesVert = 1 /\ wr.numTilesHori = 1
    /\ wr.numBytesOpt = rd.whole

\* The candidate after the last one tried has a grid of fewer than two
\* tiles, or there is none
ScanExhausted ==
    \/ Len(wr.tried) = Len(tileWidthArr)
    \/ (img.h \div tileWidthArr[Len(wr.tried) + 1])
         * (img.w \div tileWidthArr[Len(wr.tried) + 1]) < 2

\* C17 as stated: the candidates are tried in ascending order and the scan
\* stops at the first whose size is greater than or equal to the best size
\* before it, so that nothing is tried after a tie
C17_StopAtTie ==
    pc = "tiled" =>
        /\ \A k \in 1..Len(wr.tried) : wr.tried[k][1] = k
        /\ \A k \in 1..Len(wr.tried) :
              wr.tried[k][2] >= wr.tried[k][3] => k = Len(wr.tried)

\* C17 amended: the candidates are tried in ascending order; the scan stops
\* at the first whose size is greater than the best size before it, or at
\* the first whose grid has fewer than two tiles; a candidate that ties the
\* best is not adopted and does not stop the scan; the size returned is the
\* least of the sizes tried and of the whole image as one tile
C17_StopOnIncrease ==
    pc = "tiled" =>
        /\ \A k \in 1..Len(wr.tried) : wr.tried[k][1] = k
        /\ \A k \in 1..Len(wr.tried) :
              wr.tried[k][2] > wr.tried[k][3] => k = Len(wr.tried)
        /\ \/ Len(wr.tried) >= 1
                /\ wr.tried[Len(wr.tried)][2] > wr.tried[Len(wr.tried)][3]
           \/ ScanExhausted
        /\ \A k \in 1..Len(wr.tried) :
              /\ wr.tried[k][3] = IF k = 1 THEN writeTiles(img, errBound, 1, 1, FALSE).numBytes
                                  ELSE Min(wr.tried[k - 1][2], wr.tried[k - 1][3])
              /\ wr.numBytesOpt <= wr.tried[k][2]
              /\ wr.tried[k][2] = wr.tried[k][3] =>
                    ~ ( /\ wr.numTilesVert = img.h \div tileWidthArr[k]
                        /\ wr.numTilesHori = img.w \div tileWidthArr[k]
                        /\ \A j \in 1..Len(wr.tried) :
                              j # k => wr.tried[j][2] # wr.numBytesOpt )

\* The first candidate ties the whole image as one tile, the second is
\* tried after it, is smaller, and its grid is returned
C17_Witness ==
    /\ pc = "tiled"
    /\ img = TieImage(1)
    /\ errBound = 1
    /\ wr.tried = <<<<1, 19, 19>>, <<2, 15, 19>>>>
    /\ wr.numTilesVert = 1 /\ wr.numTilesHori = 2
    /\ wr.numBytesOpt = 15

----------------------------------------------------------------------------
(* writeTiles into a buffer and readTiles of that buffer, under every grid *)
(* the tiling search can try, on images whose sides are and are not        *)
(* multiples of the side of a tile; and write and read of these images.    *)
(***************************************************************************)

\* width and height
GridShapes == {<<3, 2>>, <<8, 8>>, <<16, 8>>, <<17, 9>>, <<11, 22>>, <<24, 16>>}

\* The sample of fill a at (row, col): 0, 3, small values, a wide range
GridVal(a, row, col) ==
    IF a = 0 THEN Num(0)
    ELSE IF a = 1 THEN Num(3)
    ELSE KindVal(a, row, col)

\* The masks: every pixel valid, none, every third pixel invalid
GridImage(s, a, m) ==
    Image(s[1], s[2],
          {k \in 0..(s[1] * s[2] - 1) : m = 0 \/ (m = 2 /\ k % 3 # 0)},
          [k \in 1..(s[1] * s[2]) |->
              GridVal(a, (k - 1) \div s[1], (k - 1) % s[1])])

\* The grids findTiling makes a dry run of
GridsOf(im) ==
    {<<1, 1>>} \cup
    { <<im.h \div tileWidthArr[i], im.w \div tileWidthArr[i]>> :
        i \in {j \in 1..Len(tileWidthArr) :
                 (im.h \div tileWidthArr[j]) * (im.w \div tileWidthArr[j]) >= 2} }

InitGrid ==
    /\ pc = "image"
    /\ img \in {GridImage(s, a, m) : s \in GridShapes, a \in Kinds, m \in 0..2}
    /\ errBound \in ErrBounds
    /\ readBound = errBound
    /\ buf = <<>> /\ nRemainingBytes = 0
    /\ wr = NoWrite
    /\ rd = NoRead
    /\ partSelector = FALSE
    /\ wh = NoProbe

\* writeTiles(maxZError, numTilesV, numTilesH, bArr, numBytes, maxValInImg)
WriteTiles ==
    /\ pc = "image"
    /\ \E g \in GridsOf(img) :
          wr' = writeTiles(img, errBound, g[1], g[2], TRUE)
                  @@ [numTilesV |-> g[1], numTilesH |-> g[2]]
    /\ buf' = wr'.bytes
    /\ nRemainingBytes' = Len(wr'.bytes)
    /\ pc' = "tiles"
    /\ UNCHANGED <<img, errBound, readBound, rd, partSelector, wh>>

\* readTiles(maxZErrorInFile, numTilesV, numTilesH, maxValInImg, bArr,
\* nRemainingBytes) on an image of the same dimensions and mask
ReadTiles ==
    /\ pc = "tiles"
    /\ wr.ok
    /\ rd' = readTiles([img EXCEPT !.z = Rep(Num(0), getSize(img))], buf, 1,
                       nRemainingBytes, errBound, wr.numTilesV, wr.numTilesH,
                       wr.maxValInImg)
    /\ pc' = "tiles read"
    /\ UNCHANGED <<img, errBound, buf, nRemainingBytes, readBound, wr, partSelector, wh>>

NextGrid == Write \/ Read \/ WriteTiles \/ ReadTiles

SpecGrid == InitGrid /\ [][NextGrid]_vars

\* C14: an image with no valid pixel is written in 67 bytes, the value of
\* computeNumBytesNeededToWriteVoidImage, whatever its dimensions, its
\* samples and the bound: a mask part of no bytes and a sample part of one
\* tile of one byte
C14_VoidImageSize ==
    (pc \in {"written", "read"} /\ ValidSet(img) = {}) =>
        /\ wr.ok
        /\ Len(wr.bytes) = 67
        /\ wr.sz = 67
        /\ computeNumBytesNeededToWriteVoidImage = 67
        /\ SubSeq(wr.bytes, 35, 46) = IntBytes(0) \o IntBytes(0) \o IntBytes(0)
        /\ SubSeq(wr.bytes, 51, 62) = IntBytes(1) \o IntBytes(1) \o IntBytes(1)

\* A void image of 24 x 16 with samples of a wide range, a grid of six
\* tiles tried and not kept
C14_Witness ==
    /\ pc = "written"
    /\ img.w = 24 /\ img.h = 16
    /\ ValidSet(img) = {}
    /\ img.z[2] = Num(7000)
    /\ errBound = 1
    /\ Len(findTiling(img, errBound).tried) = 1
    /\ Len(wr.bytes) = 67

\* Every pixel is valid and holds the value of the first, which is finite
\* and not 0
UniformNonzero(im) ==
    /\ ValidSet(im) = 0..(getSize(im) - 1)
    /\ IsNum(im.z[1]) /\ im.z[1] # Num(0)
    /\ \A k \in 1..getSize(im) : im.z[k] = im.z[1]

\* The block t of wr.rects starts at this index of wr.bytes when every block
\* before it takes n bytes a pixel and m bytes more
BlockAt(t, n, m) ==
    LET before[j \in 0..Len(wr.rects)] ==
            IF j = 0 THEN 0
            ELSE before[j - 1] + m
                   + n * (wr.rects[j][2] - wr.rects[j][1])
                       * (wr.rects[j][4] - wr.rects[j][3])
    IN  before[t - 1] + 1

\* C16 as stated: under the bound 0 a tile of one nonzero value, all pixels
\* valid, is written as a flag byte of the constant kind and zMin in its
\* least width
C16_ConstantPathAtZero ==
    (pc = "tiles" /\ errBound = 0 /\ UniformNonzero(img)) =>
        /\ wr.ok
        /\ Len(wr.bytes) = Len(wr.rects) * (1 + numBytesFlt(img.z[1]))
        /\ \A t \in 1..Len(wr.rects) :
              wr.bytes[BlockAt(t, 0, 1 + numBytesFlt(img.z[1]))] % 64 = 3

\* C16 amended: under the bound 0 such a tile is written as raw floats, a
\* flag byte 0 and four bytes a pixel; under a bound above 0 it is written
\* as the flag byte of the constant kind and zMin in its least width; read
\* back, every pixel holds the value
C16_RawAtZero ==
    /\ (pc = "tiles" /\ UniformNonzero(img)) =>
          /\ wr.ok
          /\ errBound = 0 =>
                /\ Len(wr.bytes) = Len(wr.rects) + 4 * getSize(img)
                /\ \A t \in 1..Len(wr.rects) :
                      /\ wr.bytes[BlockAt(t, 4, 1)] = 0
                      /\ SubSeq(wr.bytes, BlockAt(t, 4, 1) + 1, BlockAt(t, 4, 1) + 4)
                           = FltBytes(img.z[1])
          /\ errBound > 0 =>
                /\ Len(wr.bytes) = Len(wr.rects) * (1 + numBytesFlt(img.z[1]))
                /\ \A t \in 1..Len(wr.rects) :
                      wr.bytes[BlockAt(t, 0, 1 + numBytesFlt(img.z[1]))] % 64 = 3
    /\ (pc = "tiles read" /\ UniformNonzero(img)) =>
          /\ rd.ok
          /\ rd.z = img.z

\* The 8 x 8 image of 3.0 under the bound 0, written as one tile of 257
\* bytes and read back
C16_Witness ==
    /\ pc = "tiles read"
    /\ errBound = 0
    /\ img.w = 8 /\ img.h = 8
    /\ UniformNonzero(img)
    /\ img.z[1] = Num(3)
    /\ Len(wr.rects) = 1
    /\ Len(wr.bytes) = 257
    /\ wr.bytes[1] = 0
    /\ rd.ok
    /\ rd.z = img.z

\* The same image under the bound 1: two bytes
C16_WitnessConstant ==
    /\ pc = "tiles"
    /\ errBound = 1
    /\ img.w = 8 /\ img.h = 8
    /\ UniformNonzero(img)
    /\ wr.bytes = <<131, 3>>

\* a / b rounded up
CeilDiv(a, b) == (a + b - 1) \div b

\* C18 as stated: the blocks are numTilesV rows of numTilesH, none empty
C18_ExactGrid ==
    (pc \in {"tiles", "tiles read"} /\ wr.ok) =>
        /\ Len(wr.rects) = wr.numTilesV * wr.numTilesH
        /\ \A t \in 1..Len(wr.rects) :
              wr.rects[t][1] < wr.rects[t][2] /\ wr.rects[t][3] < wr.rects[t][4]
        /\ pc = "tiles read" => Len(rd.rects) = wr.numTilesV * wr.numTilesH

\* The blocks of list rects are those of a grid of blocks tH high and tW
\* wide that starts at the first row and column, row by row, the last row
\* and the last column of blocks cut at the side of the image
CutGrid(rects, tH, tW) ==
    /\ Len(rects) = CeilDiv(img.h, tH) * CeilDiv(img.w, tW)
    /\ \A t \in 1..Len(rects) :
          rects[t] = << ((t - 1) \div CeilDiv(img.w, tW)) * tH,
                        Min(img.h, ((t - 1) \div CeilDiv(img.w, tW) + 1) * tH),
                        ((t - 1) % CeilDiv(img.w, tW)) * tW,
                        Min(img.w, (((t - 1) % CeilDiv(img.w, tW)) + 1) * tW) >>

\* C18 amended: the encoder and the decoder process blocks of
\* height / numTilesV rows and width / numTilesH columns (rounded down);
\* when the height (width) is not a multiple of that, one more row
\* (column) of blocks holds the remainder, so that there are more than
\* numTilesV rows (numTilesH columns) of blocks; no block is enlarged and
\* none is empty
C18_RemainderTiles ==
    (pc \in {"tiles", "tiles read"} /\ wr.ok) =>
        /\ CutGrid(wr.rects, img.h \div wr.numTilesV, img.w \div wr.numTilesH)
        /\ pc = "tiles read" =>
              CutGrid(rd.rects, img.h \div wr.numTilesV, img.w \div wr.numTilesH)
        /\ \A t \in 1..Len(wr.rects) :
              /\ wr.rects[t][1] < wr.rects[t][2]
              /\ wr.rects[t][2] - wr.rects[t][1] <= img.h \div wr.numTilesV
              /\ wr.rects[t][3] < wr.rects[t][4]
              /\ wr.rects[t][4] - wr.rects[t][3] <= img.w \div wr.numTilesH
        /\ Len(wr.rects) >= wr.numTilesV * wr.numTilesH
        /\ (img.h % wr.numTilesV = 0 /\ img.w % wr.numTilesH = 0)
              => Len(wr.rects) = wr.numTilesV * wr.numTilesH

\* 17 x 9 under the grid of one row and two columns: three blocks, the
\* third the one column that is left
C18_Witness ==
    /\ pc = "tiles read"
    /\ img.w = 17 /\ img.h = 9
    /\ wr.numTilesV = 1 /\ wr.numTilesH = 2
    /\ wr.rects = << <<0, 9, 0, 8>>, <<0, 9, 8, 16>>, <<0, 9, 16, 17>> >>
    /\ rd.rects = wr.rects
    /\ rd.ok

\* The pixel (row, col) is in the block b
InBlock(b, row, col) ==
    b[1] <= row /\ row < b[2] /\ b[3] <= col /\ col < b[4]

\* C19: writeTiles and readTiles come to the same blocks in the same
\* order, row by row and from left to right in a row; the blocks are not
\* empty, lie inside the image, and every pixel is in exactly one of them
C19_SameTiles ==
    /\ (pc \in {"tiles", "tiles read"} /\ wr.ok) =>
          /\ \A t \in 1..Len(wr.rects) :
                /\ 0 <= wr.rects[t][1] /\ wr.rects[t][1] < wr.rects[t][2]
                /\ wr.rects[t][2] <= img.h
                /\ 0 <= wr.rects[t][3] /\ wr.rects[t][3] < wr.rects[t][4]
                /\ wr.rects[t][4] <= img.w
          /\ \A t \in 1..(Len(wr.rects) - 1) :
                \/ wr.rects[t][1] < wr.rects[t + 1][1]
                \/ /\ wr.rects[t][1] = wr.rects[t + 1][1]
                   /\ wr.rects[t][3] < wr.rects[t + 1][3]
          /\ \A row \in 0..(img.h - 1), col \in 0..(img.w - 1) :
                Cardinality({t \in 1..Len(wr.rects) :
                                InBlock(wr.rects[t], row, col)}) = 1
    /\ pc = "tiles read" =>
          /\ rd.ok
          /\ rd.rects = wr.rects

\* 24 x 16 under the grid of two rows and three columns: six blocks
C19_Witness ==
    /\ pc = "tiles read"
    /\ img.w = 24 /\ img.h = 16
    /\ wr.numTilesV = 2 /\ wr.numTilesH = 3
    /\ Len(wr.rects) = 6
    /\ wr.rects[4] = <<8, 16, 0, 8>>
    /\ rd.ok
    /\ rd.rects = wr.rects

----------------------------------------------------------------------------
(* write and read under either part selector, on one row of pixels long    *)
(* enough for the bit width of the codes to change the size of a tile,     *)
(* with a bound that is a power of two and bounds that are not; and read   *)
(* of a stream whose sample part declares more bytes than its tiles take,  *)
(* or that is followed by a byte no part declares.                         *)
(***************************************************************************)

\* The pixels of the row
RowPixels == 5

\* Most bytes added after the tiles of the sample part
MaxPad == 2

RowBounds == {0, 1, 195, 196}

RowSamples == {Num(0), Num(588)}

\* All pixels valid, none, or all but the last
RowImages ==
    { Image(RowPixels, 1, V, z) :
        V \in {0..(RowPixels - 1), {}, 0..(RowPixels - 2)},
        z \in [1..RowPixels -> RowSamples] }

InitParts ==
    /\ pc = "image"
    /\ img \in RowImages
    /\ errBound \in RowBounds
    /\ readBound = errBound
    /\ buf = <<>> /\ nRemainingBytes = 0
    /\ wr = NoWrite
    /\ rd = NoRead
    /\ partSelector \in BOOLEAN
    /\ wh = NoProbe

\* The index in buf of the sub-header of the sample part
ZPartAt ==
    IF partSelector THEN HeaderBytes + 1
    ELSE HeaderBytes + 1 + PartHeaderBytes
           + BytesInt(SubSeq(buf, HeaderBytes + 9, HeaderBytes + 12))

\* The byte count of the sub-header at p raised by k
Redeclare(src, p, k) ==
    SubSeq(src, 1, p + 7)
      \o IntBytes(BytesInt(SubSeq(src, p + 8, p + 11)) + k)
      \o SubSeq(src, p + 12, Len(src))

\* A stream that write produced, its sample part declared k bytes longer
\* than it is and k bytes added after it, and a more bytes after those
Pad ==
    /\ pc = "written"
    /\ wr.ok
    /\ \E k \in 0..MaxPad, a \in 0..1 :
          /\ k + a >= 1
          /\ buf' = Redeclare(buf, ZPartAt, k) \o Rep(0, k + a)
    /\ nRemainingBytes' = Len(buf')
    /\ pc' = "tampered"
    /\ UNCHANGED <<img, errBound, readBound, wr, rd, partSelector, wh>>

NextParts == Write \/ Pad \/ Read

SpecParts == InitParts /\ [][NextParts]_vars

\* The bytes of buf from the first sub-header on are whole parts, count of
\* them, each a sub-header and the bytes it declares
RECURSIVE WholeParts(_, _)
WholeParts(p, count) ==
    IF count = 0 THEN p = Len(buf) + 1
    ELSE /\ p + PartHeaderBytes - 1 <= Len(buf)
         /\ WholeParts(p + PartHeaderBytes + BytesInt(SubSeq(buf, p + 8, p + 11)),
                       count - 1)

\* C11: for every image, mask, bound and part selector write succeeds, the
\* bytes it emits for each part are as many as the part's sub-header
\* declares, and the bytes it emits in all are as many as
\* computeNumBytesNeededToWrite returned
C11_DryRunAgreement ==
    pc = "written" =>
        /\ wr.ok
        /\ Len(wr.bytes) = wr.sz
        /\ WholeParts(HeaderBytes + 1, IF partSelector THEN 1 ELSE 2)

\* The write that fails: five valid samples with the minimum 0 and the
\* maximum 588 under the bound 196, sized for codes of two bits and
\* emitted with codes of one bit
C11_Mismatch ==
    /\ pc = "written"
    /\ errBound = 196
    /\ ValidSet(img) = 0..4
    /\ img.z = <<Num(0), Num(588), Num(0), Num(0), Num(0)>>
    /\ ~wr.ok
    /\ wr.sz = Len(wr.bytes) + 1

\* The byte count the sub-header at p of buf declares
Declared(p) == BytesInt(SubSeq(buf, p + 8, p + 11))

\* C12: read fails whenever the tiles of the sample part have taken a
\* number of bytes other than the byte count its sub-header declares
C12_MismatchRejected ==
    pc = "read" =>
        \A i \in 1..Len(rd.parts) :
            ( /\ rd.parts[i].first = ZPartAt + PartHeaderBytes
              /\ rd.parts[i].hi # rd.parts[i].first + rd.parts[i].numBytes - 1 )
            => ~rd.ok

\* The stream read as good although its tiles end one byte before the
\* declared end of the sample part
C12_PaddingAccepted ==
    /\ pc = "read"
    /\ Len(buf) = Len(wr.bytes) + 1
    /\ Declared(ZPartAt) = Len(buf) + 1 - (ZPartAt + PartHeaderBytes)
    /\ rd.ok
    /\ Len(rd.parts) >= 1
    /\ rd.parts[Len(rd.parts)].first = ZPartAt + PartHeaderBytes
    /\ rd.parts[Len(rd.parts)].hi = Len(buf) - 1
    /\ rd.p = Len(buf) + 1

\* The sub-header at p of buf is that of a mask part (no tiling, the
\* greatest count 0 or 1), or that of a sample part (a grid of tiles)
IsCntHeader(p) ==
    /\ BytesInt(SubSeq(buf, p, p + 3)) = 0
    /\ BytesInt(SubSeq(buf, p + 4, p + 7)) = 0
    /\ BytesFlt(SubSeq(buf, p + 12, p + 15)) \in {Num(0), Num(1)}

IsZHeader(p) ==
    /\ BytesInt(SubSeq(buf, p, p + 3)) >= 1
    /\ BytesInt(SubSeq(buf, p + 4, p + 7)) >= 1

\* 16 plus the declared byte count, for each part that write emits and
\* read consumes under the selector
PartsBytes ==
    IF partSelector THEN 16 + Declared(35)
    ELSE 16 + Declared(35) + 16 + Declared(35 + 16 + Declared(35))

\* C20: a successful write has put the header, then the mask part unless
\* the selector asks for the sample part alone, then the sample part, and
\* nothing after it; a successful read with the same selector has run the
\* decoders of these parts in that order, and has advanced the cursor and
\* lowered the remaining length by 34 plus, for each part, 16 plus the
\* byte count its sub-header declares
C20_PartOrder ==
    /\ (pc = "written" /\ wr.ok) =>
          /\ SubSeq(buf, 1, Len(sCntZImage)) = sCntZImage
          /\ partSelector \/ IsCntHeader(35)
          /\ IsZHeader(IF partSelector THEN 35 ELSE 35 + 16 + Declared(35))
          /\ Len(wr.bytes) = 34 + PartsBytes
    /\ (pc = "read" /\ rd.ok) =>
          /\ rd.p = 1 + 34 + PartsBytes
          /\ rd.size = nRemainingBytes - 34 - PartsBytes
          /\ Len(rd.parts) >= 1
          /\ rd.parts[Len(rd.parts)].first = 1 + 34 + PartsBytes - Declared(ZPartAt)
          /\ \A i \in 1..(Len(rd.parts) - 1) :
                ~partSelector /\ rd.parts[i].first = 35 + 16
          /\ partSelector \/ ValidSet(rd.im) = ValidSet(img)

\* A read of both parts of a stream whose sample part declares two bytes
\* more than its tiles take, with a byte after it: the mask decoder has run
\* and then the tile decoder, and one byte remains
C20_Witness ==
    /\ pc = "read"
    /\ ~partSelector
    /\ rd.ok
    /\ Len(buf) = Len(wr.bytes) + 3
    /\ Len(rd.parts) = 2
    /\ rd.parts[2].hi = Len(wr.bytes)
    /\ rd.p = Len(buf)
    /\ rd.size = 1

\* The sample part alone written and read
C20_WitnessZOnly ==
    /\ pc = "read"
    /\ partSelector
    /\ rd.ok
    /\ Len(buf) = 34 + 16 + Declared(35)
    /\ rd.p = Len(buf) + 1
    /\ ValidSet(img) = 0..(RowPixels - 1)
    /\ rd.im.z = img.z

----------------------------------------------------------------------------
(* read of the sample part alone into an image its owner has sized and     *)
(* masked before the call: of the dimensions of the stream or of others,   *)
(* under the mask of the writer or another; the stream as written, with    *)
(* one byte replaced, or passed with a shorter length.                     *)
(***************************************************************************)

\* The images the owner has prepared for a read of the stream of im: of
\* its dimensions under its mask and under the complement, of its
\* dimensions exchanged, and one row higher; every sample 9
ZTargets(im) ==
    { Image(im.w, im.h, ValidSet(im), Rep(Num(9), getSize(im))),
      Image(im.w, im.h, (0..(getSize(im) - 1)) \ ValidSet(im),
            Rep(Num(9), getSize(im))),
      Image(im.h, im.w, ValidSet(im), Rep(Num(9), getSize(im))),
      Image(im.w, im.h + 1, ValidSet(im), Rep(Num(9), im.w * (im.h + 1))) }

InitZRead ==
    /\ pc = "image"
    /\ img \in ReadImages
    /\ errBound \in ErrBounds
    /\ readBound = errBound
    /\ buf = <<>> /\ nRemainingBytes = 0
    /\ wr = NoWrite
    /\ rd = NoRead
    /\ partSelector = TRUE
    /\ wh = NoProbe

\* The owner of the reader's image calls resize and stores a mask and
\* samples; rd.im is the reader's image from here on
Prepare ==
    /\ pc \in {"written", "tampered"}
    /\ \E t \in ZTargets(img) :
          rd' = ReadResult(FALSE, t, 1, nRemainingBytes, 0, FALSE, <<>>)
    /\ pc' = "target"
    /\ UNCHANGED <<img, errBound, buf, nRemainingBytes, readBound, wr, partSelector, wh>>

\* read(ppByte, nRemainingBytes, maxZError, partSelector) on the image
\* prepared
ReadInto ==
    /\ pc = "target"
    /\ rd' = read(rd.im, buf, 1, nRemainingBytes, readBound, partSelector)
    /\ pc' = "read into"
    /\ UNCHANGED <<img, errBound, buf, nRemainingBytes, readBound, wr, partSelector, wh>>

NextZRead == Write \/ Corrupt \/ Truncate \/ Prepare \/ ReadInto

SpecZRead == InitZRead /\ [][NextZRead]_vars

\* C21: a read of the sample part alone leaves the mask and the
\* dimensions of the image as they were at the call, whether it returns
\* true or false, and returns false when the width or the height of the
\* header is not that of the image
C21_ValueOnlyFrame ==
    [][(pc = "target" /\ pc' = "read into" /\ partSelector) =>
          /\ rd'.im.mask = rd.im.mask
          /\ rd'.im.w = rd.im.w /\ rd'.im.h = rd.im.h
          /\ (WidthOf(buf) # rd.im.w \/ HeightOf(buf) # rd.im.h) => ~rd'.ok
          /\ ~rd'.resized]_vars

\* The stream as written read into an image of its dimensions and its
\* mask: true, the valid samples replaced, the others left
C21_Witness ==
    /\ pc = "read into"
    /\ buf = wr.bytes /\ nRemainingBytes = Len(buf)
    /\ rd.ok
    /\ rd.im.w = img.w /\ rd.im.h = img.h
    /\ rd.im.mask = img.mask
    /\ ValidSet(img) = {0, 2}
    /\ rd.im.z[1] # Num(9) /\ rd.im.z[2] = Num(9) /\ rd.im.z[3] # Num(9)

\* The stream as written read into an image of other dimensions: false,
\* the image as it was
C21_WitnessDims ==
    /\ pc = "read into"
    /\ buf = wr.bytes /\ nRemainingBytes = Len(buf)
    /\ ~rd.ok
    /\ rd.im.w = img.h /\ rd.im.h = img.w
    /\ rd.im.mask = img.mask
    /\ rd.im.z = Rep(Num(9), getSize(img))

\* The stream of an image with no valid pixel read into an image that has
\* valid pixels: true, under the mask of the reader
C21_WitnessMask ==
    /\ pc = "read into"
    /\ rd.ok
    /\ ValidSet(img) = {}
    /\ ValidSet(rd.im) = {0, 1, 2}

----------------------------------------------------------------------------
(* The bit-stuffing loop of writeZTile and the loop of blockread, step by  *)
(* step.  The accumulator is an unsigned int of 32 bits: acc[i + 1] is its *)
(* bit of weight 2^i.  A code is below 2^31 and is kept as a number.       *)
(***************************************************************************)

\* Bit j of the value v, 0 for a j outside 0 .. 30
ValBit(v, j) == IF j < 0 \/ j > 30 THEN 0 ELSE (v \div Pow2(j)) % 2

AccZero == Rep(0, 32)

\* acc | (val << s) and acc | (val >> s), s in 0 .. 31
AccOrShl(acc, val, s) ==
    Tup([j \in 1..32 |-> Max(acc[j], ValBit(val, j - 1 - s))])

AccOrShr(acc, val, s) ==
    Tup([j \in 1..32 |-> Max(acc[j], ValBit(val, j - 1 + s))])

\* acc << s and acc >> s, s in 0 .. 32 (the shifts by 32 are of no effect
\* on what is read afterwards: every bit they leave is shifted out)
AccShl(acc, s) == Tup([j \in 1..32 |-> IF j - s >= 1 THEN acc[j - s] ELSE 0])

AccShr(acc, s) == Tup([j \in 1..32 |-> IF j + s <= 32 THEN acc[j + s] ELSE 0])

\* The number acc >> s for s in 1 .. 32, below 2^31
AccTop(acc, s) ==
    LET v[i \in 0..32] ==
            IF i >= 32 - s THEN 0 ELSE acc[s + i + 1] * Pow2(i) + v[i + 1]
    IN  v[0]

\* Byte m (0 the lowest) of acc, as memcpy stores it first
AccByte(acc, m) ==
    acc[8 * m + 1] + 2 * acc[8 * m + 2] + 4 * acc[8 * m + 3] + 8 * acc[8 * m + 4]
      + 16 * acc[8 * m + 5] + 32 * acc[8 * m + 6] + 64 * acc[8 * m + 7]
      + 128 * acc[8 * m + 8]

\* memcpy(&acc + (4 - nb), ptr, nb): the nb bytes at p of src stored over
\* the high bytes of acc, the others left as they are
AccLoad(acc, src, p, nb) ==
    Tup([j \in 1..32 |->
            IF (j - 1) \div 8 >= 4 - nb
            THEN (src[p + (j - 1) \div 8 - (4 - nb)] \div Pow2((j - 1) % 8)) % 2
            ELSE acc[j]])

\* All four bytes stored by the tail
writeZTileTailWhole(acc, bits, out) ==
    Tup(out \o [m \in 1..4 |-> AccByte(acc, m - 1)])

\* The tail of the loop of writeZTile: the free whole bytes shifted out,
\* the 1 to 4 bytes left stored
writeZTileTail(acc, bits, out) ==
    Tup(out \o [m \in 1..(4 - bits \div 8) |-> AccByte(acc, bits \div 8 + m - 1)])

\* One turn of the loop of writeZTile for the code v: st is acc, the free
\* bits of acc and the bytes stored so far
writeZTileStep(st, v, numBits) ==
    IF st.bits >= numBits
    THEN [acc |-> AccOrShl(st.acc, v, st.bits - numBits),
          bits |-> st.bits - numBits,
          out |-> st.out]
    ELSE [acc |-> AccShl(AccOrShl(AccZero, v, 0), st.bits + 32 - numBits),
          bits |-> st.bits + 32 - numBits,
          out |-> Tup(st.out \o [m \in 1..4 |->
                        AccByte(AccOrShr(st.acc, v, numBits - st.bits), m - 1)])]

\* The turns of the loop of writeZTile for the codes d[lo .. hi] in their
\* order, the first half of them and then the others
RECURSIVE writeZTileLoop(_, _, _, _, _)
writeZTileLoop(d, numBits, lo, hi, st) ==
    IF lo > hi THEN st
    ELSE IF lo = hi THEN writeZTileStep(st, d[lo], numBits)
    ELSE Strict(writeZTileLoop(d, numBits, lo, (lo + hi) \div 2, st), LAMBDA half :
         writeZTileLoop(d, numBits, (lo + hi) \div 2 + 1, hi, half))

\* The block of the codes d as writeZTile stores it: the byte of the bit
\* width and of the width of the count, the count, the codes
writeZTileBlock(d, numBits) ==
    <<numBits + bits67[numBytesUInt(Len(d))]>>
      \o CountBytes(Len(d), numBytesUInt(Len(d)))
      \o Strict(writeZTileLoop(d, numBits, 1, Len(d),
                               [acc |-> AccZero, bits |-> 32, out |-> <<>>]),
                LAMBDA st : writeZTileTail(st.acc, st.bits, st.out))

\* One turn of the loop of blockread: st is acc, the bits of acc not yet
\* read, the position in src, what is left of numBytes and the elements
\* filled so far
blockreadStep(st, src, numBits) ==
    IF st.bits >= numBits
    THEN [acc |-> AccShl(st.acc, numBits),
          bits |-> st.bits - numBits,
          p |-> st.p,
          numBytes |-> st.numBytes,
          d |-> Append(st.d, AccTop(st.acc, 32 - numBits))]
    ELSE Strict(Min(st.numBytes, 4), LAMBDA nb :
         Strict(AccLoad(st.acc, src, st.p, nb), LAMBDA loaded :
           [acc |-> AccShl(loaded, numBits - st.bits),
            bits |-> st.bits + 32 - numBits,
            p |-> st.p + nb,
            numBytes |-> st.numBytes - nb,
            d |-> Append(st.d,
                         (IF st.bits = 0 THEN 0
                          ELSE AccTop(st.acc, 32 - st.bits) * Pow2(numBits - st.bits))
                           + AccTop(loaded, st.bits + 32 - numBits))]))

\* k turns of the loop of blockread in their order, the first half of them
\* and then the others
RECURSIVE blockreadLoop(_, _, _, _)
blockreadLoop(src, numBits, k, st) ==
    IF k = 0 THEN st
    ELSE IF k = 1 THEN blockreadStep(st, src, numBits)
    ELSE Strict(blockreadLoop(src, numBits, k \div 2, st), LAMBDA half :
         blockreadLoop(src, numBits, k - k \div 2, half))

\* Most codes of a block of the short blocks, and the lengths of the long
\* ones: whole words at every bit width, the longest count of one byte and
\* the shortest of two bytes
MaxCodes == 12

LongBlocks == {32, 255, 256}

\* Codes below 2^b: all ones, ones and zeros in turn, and two ramps
CodePattern(b, n, t) ==
    [k \in 1..n |->
        IF t = 0 THEN Pow2(b - 1) + (Pow2(b - 1) - 1)
        ELSE IF t = 1 THEN (IF k % 2 = 1 THEN Pow2(b - 1) + (Pow2(b - 1) - 1) ELSE 0)
        ELSE IF t = 2 THEN (5 * k) % Pow2(Min(b, 30))
        ELSE Pow2(b - 1) + (Pow2(b - 1) - 1) - ((7 * k) % Pow2(Min(b, 30)))]

InitStuff ==
    /\ pc = "codes"
    /\ img \in { [d |-> CodePattern(b, n, t), numBits |-> b] :
                   b \in 1..31, n \in 1..MaxCodes, t \in 0..3 }
                \cup { [d |-> CodePattern(b, n, 1), numBits |-> b] :
                         b \in 1..31, n \in LongBlocks }
    /\ errBound = 0 /\ readBound = 0
    /\ buf = <<>> /\ nRemainingBytes = 0
    /\ wr = NoWrite
    /\ rd = [ok |-> FALSE, d |-> <<>>, p |-> 1, size |-> 0, hi |-> 0,
             loop |-> [acc |-> AccZero, bits |-> 0, p |-> 1, numBytes |-> 0,
                       d |-> <<>>]]
    /\ partSelector = FALSE
    /\ wh = NoProbe

\* The block of writeZTile for the codes, followed by nothing or by bytes
\* of another block
Stuff ==
    /\ pc = "codes"
    /\ wr' = [ok |-> TRUE, bytes |-> writeZTileBlock(img.d, img.numBits),
              sz |-> 1 + numBytesUInt(Len(img.d))
                       + (Len(img.d) * img.numBits + 7) \div 8]
    /\ \E tail \in {<<>>, <<255, 255, 255, 255>>} : buf' = wr'.bytes \o tail
    /\ nRemainingBytes' = Len(buf')
    /\ pc' = "stuffed"
    /\ UNCHANGED <<img, errBound, readBound, rd, partSelector, wh>>

\* blockread(ppByte, size, d) with d of the size of the block or of one
\* element more; loop is its loop run on the bytes after the count
Blockread ==
    /\ pc = "stuffed"
    /\ \E extra \in 0..1 :
          rd' = blockread(buf, 1, nRemainingBytes, Len(img.d) + extra)
                  @@ [loop |-> blockreadLoop(buf, img.numBits, Len(img.d),
                                   [acc |-> AccZero, bits |-> 0,
                                    p |-> 2 + numBytesUInt(Len(img.d)),
                                    numBytes |-> (Len(img.d) * img.numBits + 7) \div 8,
                                    d |-> <<>>])]
    /\ pc' = "unstuffed"
    /\ UNCHANGED <<img, errBound, buf, nRemainingBytes, readBound, wr, partSelector, wh>>

NextStuff == Stuff \/ Blockread

SpecStuff == InitStuff /\ [][NextStuff]_vars

\* C25: for a bit width of 1 to 31 and codes below 2^width, the block the
\* loop of writeZTile writes is 1 + n + ceil(N * width / 8) bytes, n the
\* width of the count, and blockread returns true on it, stores the codes
\* written and has consumed exactly these bytes; the loops give what the
\* operators by position give
C25_StuffRoundTrip ==
    /\ pc \in {"stuffed", "unstuffed"} =>
          /\ Len(wr.bytes) = wr.sz
          /\ SubSeq(wr.bytes, 2 + numBytesUInt(Len(img.d)), Len(wr.bytes))
               = StuffBytes(img.d, img.numBits)
    /\ pc = "unstuffed" =>
          /\ rd.ok
          /\ rd.d = img.d
          /\ rd.p = 1 + wr.sz
          /\ rd.size = nRemainingBytes - wr.sz
          /\ rd.loop.d = img.d
          /\ rd.loop.numBytes = 0
          /\ rd.loop.p = rd.p

\* 32 codes of 31 bits, 124 bytes of codes: the last word is whole
C25_Witness ==
    /\ pc = "unstuffed"
    /\ img.numBits = 31 /\ Len(img.d) = 32
    /\ img.d[1] = 2147483647 /\ img.d[2] = 0
    /\ Len(wr.bytes) = 126
    /\ rd.loop.d = img.d
    /\ rd.d = img.d

\* 3 codes of 3 bits: the last word holds 2 bytes; 256 codes: a count of
\* two bytes
C25_WitnessPartial ==
    /\ pc = "unstuffed"
    /\ img.numBits = 3 /\ Len(img.d) = 3
    /\ img.d = <<5, 2, 7>>
    /\ wr.bytes = <<131, 3, 128, 171>>
    /\ rd.d = img.d

C25_WitnessLong ==
    /\ pc = "unstuffed"
    /\ Len(img.d) = 256
    /\ img.numBits = 25
    /\ Len(wr.bytes) = 3 + 800
    /\ wr.bytes[1] = 64 + 25
    /\ rd.d = img.d

----------------------------------------------------------------------------
(* One block written by writeTiles and read back by readZTile, with one    *)
(* header byte of it replaced                                              *)
(***************************************************************************)

\* Three pixels in a row under every mask: a minimum of one byte, of two
\* bytes (pixel 0 invalid) and of four bytes, and a range of 2^25, which
\* is MAXQ quanta under the bound 1
TileImages ==
    { Image(3, 1, V, z) :
        V \in SUBSET (0..2),
        z \in { <<Num(-7), Num(300), Num(301)>>,
                <<Num(16777215), Num(16777218), Num(16777220)>>,
                <<Num(0), Num(300), Num(33554432)>> } }

NoTile == [ok |-> FALSE, z |-> <<>>, p |-> 1, size |-> 0, hi |-> 0]

InitTile ==
    /\ pc = "image"
    /\ img \in TileImages
    /\ errBound \in ErrBounds
    /\ readBound = errBound
    /\ buf = <<>> /\ nRemainingBytes = 0
    /\ wr = NoWrite
    /\ rd = NoTile
    /\ partSelector = FALSE
    /\ wh = NoProbe

\* The statistics of the block that is the whole image, and its plan
TileStats == computeZStats(img, 0, img.h, 0, img.w)

TilePlanned == TilePlan(img, TileStats, 0, img.h, 0, img.w, errBound)

\* writeTiles on its only block: the bytes of writeZTile
WriteZTile ==
    /\ pc = "image"
    /\ LET w == TileEmit(img, TileStats, TilePlanned, 0, img.h, 0, img.w, errBound)
       IN  /\ wr' = [ok |-> w.ok, bytes |-> w.bytes, sz |-> TilePlanned.n]
           /\ buf' = w.bytes
           /\ nRemainingBytes' = Len(w.bytes)
    /\ pc' = "tile"
    /\ UNCHANGED <<img, errBound, readBound, rd, partSelector, wh>>

\* The positions of the flag byte and, in a bit-stuffed block, of the byte
\* of the bit width and of the count
TileHeaderBytes(b) ==
    IF Len(b) = 0 THEN {}
    ELSE IF b[1] % 64 = 1
    THEN {1, 2 + stib67[b[1] \div 64 + 1], 3 + stib67[b[1] \div 64 + 1]}
    ELSE {1}

\* One header byte of the block is replaced
Retouch ==
    /\ pc = "tile"
    /\ wr.ok
    /\ \E i \in TileHeaderBytes(buf) : \E v \in (0..255) \ {buf[i]} :
          buf' = [buf EXCEPT ![i] = v]
    /\ pc' = "retouched"
    /\ UNCHANGED <<img, errBound, nRemainingBytes, readBound, wr, rd, partSelector, wh>>

\* readZTile on the block, into an image of the same mask
ReadZTile ==
    /\ pc \in {"tile", "retouched"}
    /\ rd' = readZTile([img EXCEPT !.z = Rep(Num(9), getSize(img))], buf, 1,
                       nRemainingBytes, 0, img.h, 0, img.w, readBound,
                       TileStats.zMax)
    /\ pc' = "decoded"
    /\ UNCHANGED <<img, errBound, buf, nRemainingBytes, readBound, wr, partSelector, wh>>

NextTile == WriteZTile \/ Retouch \/ ReadZTile

SpecTile == InitTile /\ [][NextTile]_vars

\* The position of the byte of the bit width in the bit-stuffed block b
BlockHeaderAt(b) == 2 + stib67[b[1] \div 64 + 1]

\* C26: the code a writer puts in bits 6 and 7 for a width of 1, 2 or 4
\* bytes is read back as that width; the flag byte of a block writeTiles
\* has written has a flag of at most 3 and not the code 3, and carries the
\* width of the minimum it is written with; the byte of the bit width of a
\* bit-stuffed block carries a bit width of 1 to 25 and the width of the
\* count; the block written is read; readZTile fails on a flag byte with
\* the code 3 or with a flag above 3, and on a bit-stuffed block whose byte
\* of the bit width has the code 3 or a bit width of 32 or more
C26_HeaderByte ==
    /\ \A n \in {1, 2, 4} : stib67[bits67[n] \div 64 + 1] = n
    /\ (pc \in {"tile", "retouched", "decoded"} /\ wr.ok) =>
          /\ Len(wr.bytes) >= 1
          /\ wr.bytes[1] \div 64 # 3
          /\ wr.bytes[1] % 64 <= 3
          /\ wr.bytes[1] % 64 \in {1, 3} =>
                stib67[wr.bytes[1] \div 64 + 1] = numBytesFlt(TilePlanned.zMin)
          /\ wr.bytes[1] % 64 = 1 =>
                /\ wr.bytes[BlockHeaderAt(wr.bytes)] % 64 \in 1..25
                /\ stib67[wr.bytes[BlockHeaderAt(wr.bytes)] \div 64 + 1]
                     = numBytesUInt(TileStats.numValidPixel)
    /\ pc = "decoded" =>
          /\ buf = wr.bytes => rd.ok
          /\ (buf[1] \div 64 = 3 \/ buf[1] % 64 > 3) => ~rd.ok
          /\ ( /\ buf[1] % 64 = 1
               /\ buf[1] \div 64 # 3
               /\ BlockHeaderAt(buf) <= nRemainingBytes
               /\ \/ buf[BlockHeaderAt(buf)] \div 64 = 3
                  \/ buf[BlockHeaderAt(buf)] % 64 >= 32 ) => ~rd.ok

\* A minimum of two bytes and a count of one byte written and read back
\* (24 bits), then a block of 25 bits, a flag byte with the code 3, a flag of 4 and a
\* bit width of 32
C26_Witness ==
    /\ pc = "decoded"
    /\ buf = wr.bytes
    /\ Len(buf) >= 5
    /\ SubSeq(buf, 1, 5) = <<65, 44, 1, 128 + 24, 2>>
    /\ rd.ok
    /\ rd.z = <<Num(9), Num(300), Num(33554432)>>

C26_WitnessWide ==
    /\ pc = "decoded"
    /\ buf = wr.bytes
    /\ Len(buf) >= 4
    /\ SubSeq(buf, 1, 4) = <<129, 0, 128 + 25, 3>>
    /\ rd.ok

C26_WitnessReserved ==
    /\ pc = "decoded"
    /\ wr.bytes[1] = 65
    /\ buf[1] = 193
    /\ ~rd.ok

C26_WitnessFlag ==
    /\ pc = "decoded"
    /\ wr.bytes[1] = 65
    /\ buf[1] = 68
    /\ ~rd.ok

C26_WitnessBits ==
    /\ pc = "decoded"
    /\ wr.bytes[1] = 65
    /\ buf[1] = 65
    /\ buf[4] = 128 + 32
    /\ ~rd.ok

\* blockread as readZTile calls it on the bit-stuffed block in buf
TileBlock ==
    blockread(buf, BlockHeaderAt(buf), nRemainingBytes - (BlockHeaderAt(buf) - 1),
              img.h * img.w)

\* C27: readZTile returns true on a bit-stuffed block only when the count
\* stored in it is the number of valid pixels of the block, which is at
\* most the number of its pixels
C27_CountOfValid ==
    (pc = "decoded" /\ rd.ok /\ buf[1] % 64 = 1) =>
        /\ TileBlock.ok
        /\ Len(TileBlock.d) = TileStats.numValidPixel
        /\ Len(TileBlock.d) <= img.h * img.w

\* Two valid pixels of three: a count of 3 that blockread accepts, a count
\* of 1, and a count of 4
C27_Witness ==
    /\ pc = "decoded"
    /\ wr.bytes[1] % 64 = 1
    /\ buf[1] = wr.bytes[1]
    /\ TileStats.numValidPixel = 2
    /\ TileBlock.ok
    /\ Len(TileBlock.d) = 3
    /\ ~rd.ok

C27_WitnessFewer ==
    /\ pc = "decoded"
    /\ wr.bytes[1] % 64 = 1
    /\ buf[1] = wr.bytes[1]
    /\ TileStats.numValidPixel = 2
    /\ TileBlock.ok
    /\ Len(TileBlock.d) = 1
    /\ ~rd.ok

C27_WitnessMore ==
    /\ pc = "decoded"
    /\ wr.bytes[1] % 64 = 1
    /\ buf[1] = wr.bytes[1]
    /\ buf[BlockHeaderAt(buf)] = wr.bytes[BlockHeaderAt(buf)]
    /\ buf[BlockHeaderAt(buf) + 1] = 4
    /\ ~TileBlock.ok
    /\ ~rd.ok

----------------------------------------------------------------------------
(* The loops of readTiles and writeTiles over the blocks, one block at a   *)
(* step.  What readZTile, computeZStats and writeZTile do to the samples   *)
(* is left out: a step knows only whether they returned true.              *)
(***************************************************************************)

\* The sides the images of the loops have
LoopSides == {1, 2, 3, 16, 17}

\* The counts of blocks a sub-header can hold, as ints of 32 bits
GridValues == {-2147483647 - 1, -2, -1, 0, 1, 2, 3, 17, 18, 2147483647}

\* No test of the sides of a block
readTilesRefusesZero(im, numTilesV, numTilesH) ==
    numTilesV = 0 \/ numTilesH = 0

\* The tests of readTiles before its loops
readTilesRefuses(im, numTilesV, numTilesH) ==
    \/ numTilesV = 0 \/ numTilesH = 0
    \/ CDiv(im.w, numTilesH) <= 0 \/ CDiv(im.h, numTilesV) <= 0

NoLoop == [ok |-> FALSE, tileHeight |-> 0, tileWidth |-> 0, r0 |-> 0, c0 |-> 0]

\* The loop variables after a block at <<r0, c0>>: c0 += tileWidth, and
\* r0 += tileHeight with c0 = 0 when the row of blocks is done
NextBlock(im, lp) ==
    IF lp.c0 + lp.tileWidth < im.w
    THEN [lp EXCEPT !.c0 = lp.c0 + lp.tileWidth]
    ELSE [lp EXCEPT !.r0 = lp.r0 + lp.tileHeight, !.c0 = 0]

InitLoops ==
    /\ pc = "call"
    /\ img \in {ImgResize(w, h) : w \in LoopSides, h \in LoopSides}
    /\ errBound = 0 /\ readBound = 0
    /\ buf = <<>> /\ nRemainingBytes = 0
    /\ wr = NoWrite
    /\ rd = NoLoop
    /\ partSelector = FALSE
    /\ wh = NoProbe

\* readTiles is called with the counts of a sub-header
ReadTilesCall ==
    /\ pc = "call"
    /\ \E numTilesV \in GridValues, numTilesH \in GridValues :
          IF readTilesRefuses(img, numTilesV, numTilesH)
          THEN pc' = "returned" /\ rd' = NoLoop
          ELSE /\ pc' = "reading"
               /\ rd' = [ok |-> TRUE,
                         tileHeight |-> CDiv(img.h, numTilesV),
                         tileWidth |-> CDiv(img.w, numTilesH),
                         r0 |-> 0, c0 |-> 0]
    /\ UNCHANGED <<img, errBound, buf, nRemainingBytes, readBound, wr, partSelector, wh>>

\* The test of the outer loop of readTiles and one call of readZTile
ReadTilesBlock ==
    /\ pc = "reading"
    /\ IF rd.r0 >= img.h
       THEN pc' = "returned" /\ rd' = rd
       ELSE \E tileOk \in BOOLEAN :
               IF tileOk
               THEN pc' = "reading" /\ rd' = NextBlock(img, rd)
               ELSE pc' = "returned" /\ rd' = [rd EXCEPT !.ok = FALSE]
    /\ UNCHANGED <<img, errBound, buf, nRemainingBytes, readBound, wr, partSelector, wh>>

\* writeTiles is called by findTiling or by write, with a grid of findTiling
WriteTilesCall ==
    /\ pc = "call"
    /\ \E g \in GridsOf(img) :
          IF g[1] = 0 \/ g[2] = 0
          THEN pc' = "returned" /\ rd' = NoLoop
          ELSE /\ pc' = "writing"
               /\ rd' = [ok |-> TRUE,
                         tileHeight |-> img.h \div g[1],
                         tileWidth |-> img.w \div g[2],
                         r0 |-> 0, c0 |-> 0]
    /\ UNCHANGED <<img, errBound, buf, nRemainingBytes, readBound, wr, partSelector, wh>>

\* The test of the outer loop of writeTiles and one block: computeZStats
\* and, when bArr is given, writeZTile
WriteTilesBlock ==
    /\ pc = "writing"
    /\ IF rd.r0 >= img.h
       THEN pc' = "returned" /\ rd' = rd
       ELSE \E tileOk \in BOOLEAN :
               IF tileOk
               THEN pc' = "writing" /\ rd' = NextBlock(img, rd)
               ELSE pc' = "returned" /\ rd' = [rd EXCEPT !.ok = FALSE]
    /\ UNCHANGED <<img, errBound, buf, nRemainingBytes, readBound, wr, partSelector, wh>>

NextLoops == ReadTilesCall \/ ReadTilesBlock \/ WriteTilesCall \/ WriteTilesBlock

SpecLoops == InitLoops /\ [][NextLoops]_vars

\* A call that has begun goes on: each step of it is taken in the end
SpecLoopsFair == SpecLoops /\ WF_vars(NextLoops)

\* C28: while readTiles or writeTiles is in its loops the sides of a block
\* are 1 or more, and every call returns
C28_LoopsEnd ==
    /\ [](pc \in {"reading", "writing"} => rd.tileHeight >= 1 /\ rd.tileWidth >= 1)
    /\ <>(pc = "returned")

\* readTiles has returned true after the last of the blocks of a grid of
\* 3 by 3 on an image of 17 by 17, the blocks at the ends 5 deep
C28_Witness ==
    /\ pc = "returned"
    /\ rd.ok
    /\ img.w = 17 /\ img.h = 17
    /\ rd.tileHeight = 5 /\ rd.tileWidth = 5
    /\ rd.r0 = 20

----------------------------------------------------------------------------
(* The minimum of a block as numBytesFlt sizes it, writeFlt stores it and  *)
(* readFlt loads it                                                        *)
(***************************************************************************)

\* Whole numbers about the ends of the ranges of one and of two bytes,
\* halves, large values, and the floats kept as bytes: -0.0, the
\* infinities, a NaN and the largest floats
FltValues ==
    {Num(k) : k \in -130..130}
      \cup {Num(k) : k \in {-65536, -32770, -32769, -32768, -32767, 32766,
                             32767, 32768, 32769, 65536, 16777216}}
      \cup {<<k, FRAC \div 2>> : k \in {-32769, -129, -128, -1, 0, 127, 128, 32767}}
      \cup {<<"raw", 0, 0, 0, 128>>, <<"raw", 0, 0, 128, 127>>,
            <<"raw", 0, 0, 128, 255>>, NaN, FLT_MAX, NegFLT_MAX}

\* The image of one pixel whose sample, the minimum of its block, is z
InitFlt ==
    /\ pc = "value"
    /\ img \in {Image(1, 1, {0}, <<z>>) : z \in FltValues}
    /\ errBound = 0 /\ readBound = 0
    /\ buf = <<>> /\ nRemainingBytes = 0
    /\ wr = NoWrite
    /\ rd = NoTile
    /\ partSelector = FALSE
    /\ wh = NoProbe

\* writeFlt(ptr, z, numBytesFlt(z)), followed by nothing or by another byte
WriteFlt ==
    /\ pc = "value"
    /\ wr' = [ok |-> TRUE, bytes |-> writeFlt(img.z[1], numBytesFlt(img.z[1])),
              sz |-> numBytesFlt(img.z[1])]
    /\ \E tail \in {<<>>, <<255>>} : buf' = wr'.bytes \o tail
    /\ nRemainingBytes' = Len(buf')
    /\ pc' = "stored"
    /\ UNCHANGED <<img, errBound, readBound, rd, partSelector, wh>>

\* readFlt(ptr, n) with the n of the writer
ReadFlt ==
    /\ pc = "stored"
    /\ rd' = [ok |-> TRUE, z |-> <<readFlt(buf, 1, wr.sz)>>, p |-> 1 + wr.sz,
              size |-> nRemainingBytes - wr.sz, hi |-> wr.sz]
    /\ pc' = "loaded"
    /\ UNCHANGED <<img, errBound, buf, nRemainingBytes, readBound, wr, partSelector, wh>>

NextFlt == WriteFlt \/ ReadFlt

SpecFlt == InitFlt /\ [][NextFlt]_vars

\* The width the value z is to be stored in: -0.0 is the whole number 0
FltWidthClass(z) ==
    IF IsNegZero(z) THEN 1
    ELSE IF IsNum(z) /\ z[2] = 0 /\ z[1] >= -128 /\ z[1] <= 127 THEN 1
    ELSE IF IsNum(z) /\ z[2] = 0 /\ z[1] >= -32768 /\ z[1] <= 32767 THEN 2
    ELSE 4

\* C29 as stated: numBytesFlt(z) is 1 for the whole numbers of -128 .. 127,
\* 2 for the other whole numbers of -32768 .. 32767 and 4 for every other
\* float, and readFlt gives back the float that writeFlt has stored in
\* numBytesFlt(z) bytes
C29_FltRoundTrip ==
    /\ numBytesFlt(img.z[1]) = FltWidthClass(img.z[1])
    /\ pc \in {"stored", "loaded"} => Len(wr.bytes) = numBytesFlt(img.z[1])
    /\ pc = "loaded" => rd.z[1] = img.z[1]

\* C29 amended: the same, but -0.0, stored in one byte, is given back
\* as +0.0
C29_FltRoundTripButSign ==
    /\ numBytesFlt(img.z[1]) = FltWidthClass(img.z[1])
    /\ pc \in {"stored", "loaded"} => Len(wr.bytes) = numBytesFlt(img.z[1])
    /\ pc = "loaded" =>
          rd.z[1] = IF IsNegZero(img.z[1]) THEN Num(0) ELSE img.z[1]

\* -0.0 stored as the byte 0 and loaded as +0.0
C29_Witness ==
    /\ pc = "loaded"
    /\ IsNegZero(img.z[1])
    /\ wr.bytes = <<0>>
    /\ rd.z[1] = Num(0)

\* -32768 in two bytes, -129 in two bytes, -128 in one, 127.5 in four
C29_WitnessShort ==
    /\ pc = "loaded"
    /\ img.z[1] = Num(-32768)
    /\ wr.bytes = <<0, 128>>
    /\ rd.z[1] = Num(-32768)

C29_WitnessEnds ==
    /\ pc = "loaded"
    /\ \/ img.z[1] = Num(-129) /\ wr.bytes = <<127, 255>>
       \/ img.z[1] = Num(-128) /\ wr.bytes = <<128>>
       \/ img.z[1] = <<127, FRAC \div 2>> /\ wr.bytes = <<0, 0, 255, 66>>
    /\ rd.z[1] = img.z[1]

----------------------------------------------------------------------------
(* The sizes computed in ints of 32 bits, for images of up to MaxDim by    *)
(* MaxDim pixels, every pixel valid.  A product a * b + c is kept exact as *)
(* hi * 65536 + lo, lo below 65536.                                        *)
(***************************************************************************)

\* a * b + c for 0 <= a < 2^31, 0 <= b < 64 and 0 <= c < 64
Wide(a, b, c) ==
    [hi |-> (a \div 65536) * b + ((a % 65536) * b + c) \div 65536,
     lo |-> ((a % 65536) * b + c) % 65536]

\* The low 32 bits of the product read as an int
WideAsInt(v) ==
    IF v.hi % 65536 >= 32768 THEN ((v.hi % 65536) - 65536) * 65536 + v.lo
    ELSE (v.hi % 65536) * 65536 + v.lo

\* What the product of two ints and the sum can be: the number when an int
\* holds it; any int otherwise, for the overflow of a signed int is
\* undefined: the low 32 bits and the ends of the range stand for them
IntOutcomes(v) ==
    IF v.hi < 32768 THEN {v.hi * 65536 + v.lo}
    ELSE {WideAsInt(v), 2147483647, -2147483647 - 1}

\* The quotient of ints as C takes it, for b > 0
CQuot(a, b) == IF a >= 0 \/ a % b = 0 THEN a \div b ELSE (a \div b) + 1

\* The sides of the images
SizeSides == {1, 9, 100, 4096, 16384, MaxDim}

NoSize == [fits |-> TRUE, numBytes |-> 0, exact |-> 0]

InitSizes ==
    /\ pc = "image"
    /\ img \in {[w |-> w, h |-> h] : w \in SizeSides, h \in SizeSides}
    /\ errBound = 0 /\ readBound = 0
    /\ buf = <<>> /\ nRemainingBytes = 0
    /\ wr = NoSize
    /\ rd = NoSize
    /\ partSelector = FALSE
    /\ wh = NoProbe

\* (nValues * nBits(maxElem) + 7) / 8 of numBytesZTile, for the first
\* block of a grid findTiling makes a dry run of and a bit width of 1 to 25
SizeZTile ==
    /\ pc = "image"
    /\ \E g \in GridsOf(img), numBits \in 1..25 :
          LET nValues == (img.h \div g[1]) * (img.w \div g[2])
              v       == Wide(nValues, numBits, 7)
          IN  \E x \in IntOutcomes(v) :
                 wr' = [fits |-> v.hi < 32768,
                        numBytes |-> CQuot(x, 8),
                        exact |-> v.hi * 8192 + v.lo \div 8]
    /\ pc' = "sized"
    /\ UNCHANGED <<img, errBound, buf, nRemainingBytes, readBound, rd, partSelector, wh>>

\* (numElements * numBits + 7) / 8 of blockread in unsigned ints, for the
\* first block of such a grid, full of valid pixels, and a bit width of
\* 1 to 31
SizeBlock ==
    /\ pc = "image"
    /\ \E g \in GridsOf(img), numBits \in 1..31 :
          LET numElements == (img.h \div g[1]) * (img.w \div g[2])
              v           == Wide(numElements, numBits, 7)
          IN  rd' = [fits |-> v.hi < 65536,
                     numBytes |-> (v.hi % 65536) * 8192 + v.lo \div 8,
                     exact |-> v.hi * 8192 + v.lo \div 8]
    /\ pc' = "block sized"
    /\ UNCHANGED <<img, errBound, buf, nRemainingBytes, readBound, wr, partSelector, wh>>

\* numBytes of writeTiles after the last block under the bound 0, where
\* a block of n pixels takes 1 + 4 * n bytes: 4 bytes for each pixel and
\* one byte for each block of the grid
SumTiles ==
    /\ pc = "image"
    /\ \E g \in GridsOf(img) :
          LET rows == CeilDiv(img.h, img.h \div g[1])
              cols == CeilDiv(img.w, img.w \div g[2])
          IN  wr' = [fits |-> rows * cols <= 2147483647 - 4 * img.w * img.h,
                     numBytes |-> rows * cols + 4 * img.w * img.h,
                     exact |-> rows * cols + 4 * img.w * img.h]
    /\ pc' = "summed"
    /\ UNCHANGED <<img, errBound, buf, nRemainingBytes, readBound, rd, partSelector, wh>>

NextSizes == SizeZTile \/ SizeBlock \/ SumTiles

SpecSizes == InitSizes /\ [][NextSizes]_vars

\* C30: for an image of at most MaxDim by MaxDim pixels the products of
\* numBytesZTile and of blockread and the sum of writeTiles stay in the
\* range of their type, and the number of bytes computed is the exact one
C30_SizesInRange ==
    /\ pc \in {"sized", "summed"} => wr.fits /\ wr.numBytes = wr.exact
    /\ pc = "block sized" => rd.fits /\ rd.numBytes = rd.exact

\* The whole image of 20000 by 20000 pixels as one block of 6 bits: the
\* product is 2400000007, the low 32 bits as an int -1894967289
C30_Wraps ==
    /\ pc = "sized"
    /\ img.w = MaxDim /\ img.h = MaxDim
    /\ ~wr.fits
    /\ wr.exact = 300000000
    /\ wr.numBytes = -236870911

\* The same block of 11 bits in blockread: 550000000 bytes, 13129088
\* after the product has lost its bit 32
C30_WrapsUnsigned ==
    /\ pc = "block sized"
    /\ img.w = MaxDim /\ img.h = MaxDim
    /\ ~rd.fits
    /\ rd.exact = 550000000
    /\ rd.numBytes = 13129088

====
